---- MODULE Spec2Model ----
(***************************************************************************)
(* A model of swc-plugin-aws-durable: the two-pass rewrite of a parsed     *)
(* module.  Pass 1 (Collector, collector.rs) builds the CollectedInfo fact *)
(* sheet; pass 2 (WorkflowTransformer, transform.rs) rewrites the module   *)
(* body in workflow or client mode, fabricating new nodes with codegen.rs. *)
(*                                                                         *)
(* Syntax trees are records tagged by "k" with the name of the swc node    *)
(* kind.  Spans and syntax contexts are left out: no code path reads them. *)
(***************************************************************************)
EXTENDS Integers, Sequences, FiniteSets, TLC

VARIABLES module, config, info, pc, input, run, metadata

vars == <<module, config, info, pc, input, run, metadata>>

(***************************************************************************)
(* Bounds of the model.                                                    *)
(***************************************************************************)
\* Longest module (number of top-level items) drawn as an input.
MaxItems == 3
\* How many times the host applies the pass to the same module in a row.
MaxRuns == 2
\* Most members of a configuration object drawn as an input.
MaxFields == 2

(***************************************************************************)
(* Syntax tree constructors (swc_core::ecma::ast).                         *)
(***************************************************************************)
NoneV == [k |-> "None"]

IsSome(o) == o.k # "None"

Ident(sym) == [k |-> "Ident", sym |-> sym]

StrLit(value) == [k |-> "Str", value |-> value]

BoolLit(value) == [k |-> "Bool", value |-> value]

CallExpr(callee, args) == [k |-> "Call", callee |-> callee, args |-> args]

AwaitExpr(arg) == [k |-> "Await", arg |-> arg]

AssignExpr(left, right) == [k |-> "Assign", left |-> left, right |-> right]

\* MemberProp::Ident(IdentName): the name as a sequence of string pieces.
IdentName(sym) == <<sym>>

MemberExpr(obj, prop) == [k |-> "Member", obj |-> obj, prop |-> prop]

NewExpr(callee, args) == [k |-> "New", callee |-> callee, args |-> args]

KeyValueProp(key, value) == [key |-> key, value |-> value]

ObjectLit(props) == [k |-> "Object", props |-> props]

ArrayLit(elems) == [k |-> "Array", elems |-> elems]

BinExpr(left, right) == [k |-> "Bin", left |-> left, right |-> right]

BlockStmt(stmts) == [k |-> "BlockStmt", stmts |-> stmts]

\* An arrow function; body is a BlockStmt or an expression.
ArrowExpr(params, body, is_async) ==
    [k |-> "Arrow", params |-> params, body |-> body, is_async |-> is_async]

\* A function expression; body is a BlockStmt (always present in JS source).
FnExpr(ident, params, body, is_async) ==
    [k |-> "Fn", ident |-> ident, params |-> params, body |-> body,
     is_async |-> is_async]

ExprStmt(expr) == [k |-> "Expr", expr |-> expr]

ReturnStmt(arg) == [k |-> "Return", arg |-> arg]

IfStmt(test, cons) == [k |-> "If", test |-> test, cons |-> cons]

PatIdent(sym) == [k |-> "PatIdent", sym |-> sym]

PatObject(sym) == [k |-> "PatObject", sym |-> sym]

VarDeclarator(name, init) == [name |-> name, init |-> init]

\* Stmt::Decl(Decl::Var(..)) and the Decl::Var of an ExportDecl.
VarDecl(decls) == [k |-> "VarDecl", kind |-> "const", decls |-> decls]

\* Stmt::Decl(Decl::Fn(..)) and the Decl::Fn of an ExportDecl.
FnDecl(ident, params, body, is_async) ==
    [k |-> "FnDecl", ident |-> ident, params |-> params, body |-> body,
     is_async |-> is_async]

ImportNamed(local, imported) ==
    [k |-> "Named", local |-> local, imported |-> imported]

ImportDefault(local) == [k |-> "Default", local |-> local]

ImportNamespace(local) == [k |-> "Namespace", local |-> local]

\* ModuleItem::Stmt
ItemStmt(stmt) == [k |-> "Stmt", stmt |-> stmt]

\* ModuleItem::ModuleDecl(ModuleDecl::Import); src is a sequence of characters.
ImportDecl(specifiers, src) ==
    [k |-> "Import", specifiers |-> specifiers, src |-> src]

\* ModuleItem::ModuleDecl(ModuleDecl::ExportDecl)
ExportDecl(decl) == [k |-> "ExportDecl", decl |-> decl]

\* ModuleItem::ModuleDecl(ModuleDecl::ExportDefaultDecl); decl is a FnExpr.
ExportDefaultDecl(decl) == [k |-> "ExportDefaultDecl", decl |-> decl]

(***************************************************************************)
(* Sequence helpers.                                                       *)
(***************************************************************************)
RECURSIVE Flatten(_)
\* The concatenation of a sequence of sequences.
Flatten(ss) == IF ss = <<>> THEN <<>> ELSE Head(ss) \o Flatten(Tail(ss))

Range(s) == {s[i] : i \in 1..Len(s)}

\* str::starts_with on character sequences.
StartsWith(s, prefix) ==
    Len(s) >= Len(prefix) /\ SubSeq(s, 1, Len(prefix)) = prefix

(***************************************************************************)
(* directive.rs                                                            *)
(***************************************************************************)
is_directive(stmt, value) ==
    stmt.k = "Expr" /\ stmt.expr.k = "Str" /\ stmt.expr.value = value

is_use_workflow_directive(stmt) == is_directive(stmt, "use workflow")

is_use_step_directive(stmt) == is_directive(stmt, "use step")

block_has_workflow_directive(block) ==
    \E i \in 1..Len(block.stmts) : is_use_workflow_directive(block.stmts[i])

block_has_step_directive(block) ==
    \E i \in 1..Len(block.stmts) : is_use_step_directive(block.stmts[i])

(***************************************************************************)
(* config.rs                                                               *)
(***************************************************************************)
\* default_package_name(): "@bento/aws-durable"
default_package_name ==
    <<"@", "b", "e", "n", "t", "o", "/", "a", "w", "s", "-",
      "d", "u", "r", "a", "b", "l", "e">>

\* default_env_prefix()
default_env_prefix == <<"W", "O", "R", "K", "F", "L", "O", "W", "_">>

\* default_mode()
default_mode == "workflow"

PluginConfig(mode, package_name, env_prefix) ==
    [mode |-> mode, package_name |-> package_name, env_prefix |-> env_prefix]

\* impl Default for PluginConfig
PluginConfigDefault ==
    PluginConfig("workflow", default_package_name, default_env_prefix)

\* The configuration text the host resolved, as the JSON document it spells
\* (JsonInvalid: a text that is not JSON).  Strings are sequences of
\* characters; the members of an object are <<key, value>> pairs in order.
JsonInvalid == [k |-> "JInvalid"]

JsonNull == [k |-> "JNull"]

JsonNum(n) == [k |-> "JNum", value |-> n]

JsonStr(chars) == [k |-> "JStr", value |-> chars]

JsonObject(members) == [k |-> "JObject", members |-> members]

\* Some(json_str)
ConfigText(json) == [k |-> "Text", json |-> json]

\* Deserialize for TransformMode, rename_all = "lowercase": Ok(m) as <<m>>.
deserialize_mode(v) ==
    IF v.k # "JStr" THEN <<>>
    ELSE IF v.value = <<"w", "o", "r", "k", "f", "l", "o", "w">> THEN <<"workflow">>
    ELSE IF v.value = <<"c", "l", "i", "e", "n", "t">> THEN <<"client">>
    ELSE <<>>

\* Deserialize for String: Ok(s) as <<s>>.
deserialize_string(v) == IF v.k = "JStr" THEN <<v.value>> ELSE <<>>

\* A variant of the struct visitor's field step that skips a member whose
\* value does not deserialize instead of failing.
visit_field_Lenient(acc, key, value) ==
    IF acc = <<>> THEN <<>>
    ELSE CASE key = "mode" ->
                IF acc[1].mode # <<>> THEN <<>>
                ELSE <<[acc[1] EXCEPT !.mode = deserialize_mode(value)]>>
           [] key = "packageName" ->
                IF acc[1].package_name # <<>> THEN <<>>
                ELSE <<[acc[1] EXCEPT !.package_name = deserialize_string(value)]>>
           [] key = "envPrefix" ->
                IF acc[1].env_prefix # <<>> THEN <<>>
                ELSE <<[acc[1] EXCEPT !.env_prefix = deserialize_string(value)]>>
           [] OTHER -> acc

\* Deserialize for PluginConfig (derived, rename_all = "camelCase"), one
\* member of the map: a known field may come once and its value must
\* deserialize; any other key is ignored.  Err as <<>>.
visit_field(acc, key, value) ==
    IF acc = <<>> THEN <<>>
    ELSE CASE key = "mode" ->
                IF acc[1].mode # <<>> \/ deserialize_mode(value) = <<>> THEN <<>>
                ELSE <<[acc[1] EXCEPT !.mode = deserialize_mode(value)]>>
           [] key = "packageName" ->
                IF acc[1].package_name # <<>> \/ deserialize_string(value) = <<>>
                THEN <<>>
                ELSE <<[acc[1] EXCEPT !.package_name = deserialize_string(value)]>>
           [] key = "envPrefix" ->
                IF acc[1].env_prefix # <<>> \/ deserialize_string(value) = <<>>
                THEN <<>>
                ELSE <<[acc[1] EXCEPT !.env_prefix = deserialize_string(value)]>>
           [] OTHER -> acc

RECURSIVE visit_map(_, _)
\* Deserialize for PluginConfig, the members in order.
visit_map(acc, members) ==
    IF members = <<>> THEN acc
    ELSE visit_map(visit_field(acc, Head(members)[1], Head(members)[2]),
                   Tail(members))

\* serde_json::from_str::<PluginConfig>(&json_str).ok(): Some(c) as <<c>>.
\* A field the map did not supply takes its serde default.
from_str(json) ==
    IF json.k # "JObject" THEN <<>>
    ELSE LET fields == visit_map(<<[mode |-> <<>>, package_name |-> <<>>,
                                    env_prefix |-> <<>>]>>, json.members)
         IN  IF fields = <<>> THEN <<>>
             ELSE <<PluginConfig(
                      IF fields[1].mode = <<>> THEN default_mode
                      ELSE fields[1].mode[1],
                      IF fields[1].package_name = <<>> THEN default_package_name
                      ELSE fields[1].package_name[1],
                      IF fields[1].env_prefix = <<>> THEN default_env_prefix
                      ELSE fields[1].env_prefix[1])>>

(***************************************************************************)
(* codegen.rs                                                              *)
(***************************************************************************)
\* The source of the remote-invocation SDK import: "@aws-sdk/client-lambda"
LambdaSdkSource ==
    <<"@", "a", "w", "s", "-", "s", "d", "k", "/", "c", "l", "i", "e", "n", "t",
      "-", "l", "a", "m", "b", "d", "a">>

create_sdk_import(package_name) ==
    ImportDecl(<<ImportNamed("withDurableExecution", NoneV)>>, package_name)

create_lambda_sdk_import ==
    ImportDecl(<<ImportNamed("LambdaClient", NoneV),
                 ImportNamed("InvokeCommand", NoneV)>>, LambdaSdkSource)

\* A variant of create_with_durable_execution_call that exports the wrapper
\* only for a default export.
create_with_durable_execution_call_DefaultOnly(fn_name, body_stmts, is_exported, is_default) ==
    LET arrow == ArrowExpr(<<PatIdent("event"), PatIdent("ctx")>>,
                           BlockStmt(body_stmts), TRUE)
        call == CallExpr(Ident("withDurableExecution"), <<arrow>>)
        decl == VarDecl(<<VarDeclarator(PatIdent(fn_name), call)>>)
    IN  IF is_default THEN ExportDecl(decl) ELSE ItemStmt(decl)

create_with_durable_execution_call(fn_name, body_stmts, is_exported, is_default) ==
    LET arrow == ArrowExpr(<<PatIdent("event"), PatIdent("ctx")>>,
                           BlockStmt(body_stmts), TRUE)
        call == CallExpr(Ident("withDurableExecution"), <<arrow>>)
        decl == VarDecl(<<VarDeclarator(PatIdent(fn_name), call)>>)
    IN  IF is_exported \/ is_default THEN ExportDecl(decl) ELSE ItemStmt(decl)

\* A variant of create_ctx_step_call whose arrow takes a parameter.
create_ctx_step_call_WithParam(step_name, body_stmts) ==
    CallExpr(MemberExpr(Ident("ctx"), IdentName("step")),
             <<StrLit(step_name),
               ArrowExpr(<<PatIdent("x")>>, BlockStmt(body_stmts), TRUE)>>)

create_ctx_step_call(step_name, body_stmts) ==
    CallExpr(MemberExpr(Ident("ctx"), IdentName("step")),
             <<StrLit(step_name), ArrowExpr(<<>>, BlockStmt(body_stmts), TRUE)>>)

create_invoke_step(fn_name_expr, payload_expr) ==
    LET lambda_client == NewExpr(Ident("LambdaClient"), <<ObjectLit(<<>>)>>)
        json_stringify ==
            CallExpr(MemberExpr(Ident("JSON"), IdentName("stringify")), <<payload_expr>>)
        invoke_command ==
            NewExpr(Ident("InvokeCommand"),
                    <<ObjectLit(<<KeyValueProp("FunctionName", fn_name_expr),
                                  KeyValueProp("Payload", json_stringify)>>)>>)
        client_decl ==
            VarDecl(<<VarDeclarator(PatIdent("client"), lambda_client)>>)
        send_call ==
            AwaitExpr(CallExpr(MemberExpr(Ident("client"), IdentName("send")),
                               <<invoke_command>>))
        response_decl ==
            VarDecl(<<VarDeclarator(PatIdent("response"), send_call)>>)
        return_stmt ==
            ReturnStmt(CallExpr(MemberExpr(Ident("JSON"), IdentName("parse")),
                <<CallExpr(MemberExpr(NewExpr(Ident("TextDecoder"), <<>>), IdentName("decode")),
                           <<MemberExpr(Ident("response"), IdentName("Payload"))>>)>>))
    IN  create_ctx_step_call("invoke", <<client_decl, response_decl, return_stmt>>)

create_ctx_wait_call(duration_expr) ==
    CallExpr(MemberExpr(Ident("ctx"), IdentName("wait")), <<duration_expr>>)

create_ctx_wait_for_callback_call(args) ==
    CallExpr(MemberExpr(Ident("ctx"), IdentName("waitForCallback")), args)

create_workflow_meta_export(workflow_name, step_names) ==
    LET steps_array == ArrayLit([i \in 1..Len(step_names) |-> StrLit(step_names[i])])
        meta_obj == ObjectLit(<<KeyValueProp("name", StrLit(workflow_name)),
                                KeyValueProp("steps", steps_array)>>)
    IN  ExportDecl(VarDecl(<<VarDeclarator(PatIdent("__workflowMeta"), meta_obj)>>))

\* str::to_uppercase on the identifiers the model imports.
to_uppercase(s) ==
    CASE s = "wa" -> "WA"
      [] s = "wb" -> "WB"
      [] s = "dflt" -> "DFLT"
      [] s = "ns" -> "NS"
      [] s = "util" -> "UTIL"
      [] OTHER -> s

\* format!("{}{}", env_prefix, local_name.to_uppercase()): both parts, in order.
env_var_name(env_prefix, local_name) == <<env_prefix, to_uppercase(local_name)>>

create_workflow_descriptor(local_name, env_prefix) ==
    LET env_access == MemberExpr(MemberExpr(Ident("process"), IdentName("env")),
                                 env_var_name(env_prefix, local_name))
        descriptor == ObjectLit(<<KeyValueProp("__workflow", BoolLit(TRUE)),
                                  KeyValueProp("name", StrLit(local_name)),
                                  KeyValueProp("functionName", env_access)>>)
    IN  ItemStmt(VarDecl(<<VarDeclarator(PatIdent(local_name), descriptor)>>))

(***************************************************************************)
(* collector.rs: pass 1.  The visitor state is the Collector struct: the   *)
(* fact sheet under construction and the two export flags.  Every visit_*  *)
(* operator takes the collector and returns it as the visit leaves it.     *)
(***************************************************************************)
WorkflowFnInfo(name, is_exported, is_default_export, is_async) ==
    [name |-> name, is_exported |-> is_exported,
     is_default_export |-> is_default_export, is_async |-> is_async]

StepFnInfo(name, body) == [name |-> name, body |-> body]

WorkflowImportInfo(local_name, imported_name, source) ==
    [local_name |-> local_name, imported_name |-> imported_name, source |-> source]

\* CollectedInfo::default(); step_fns is the HashMap, a function on its keys.
CollectedInfoDefault ==
    [workflow_fns |-> <<>>,
     step_fns |-> [n \in {} |-> NoneV],
     workflow_imports |-> <<>>,
     has_invoke |-> FALSE,
     has_sleep |-> FALSE,
     has_wait_for_callback |-> FALSE,
     step_fn_names |-> <<>>,
     has_module_workflow_directive |-> FALSE]

\* Collector::new
CollectorNew ==
    [info |-> CollectedInfoDefault, current_export |-> FALSE,
     current_default_export |-> FALSE]

\* HashMap::insert: a later insert under the same key replaces the entry.
HashMapInsert(map, key, value) ==
    [n \in DOMAIN map \cup {key} |-> IF n = key THEN value ELSE map[n]]

\* A variant of the callee test in which sleep also counts as invoke.
MarkSpecialCall_SleepIsInvoke(flags, callee) ==
    IF callee.k # "Ident" THEN flags
    ELSE CASE callee.sym = "invoke" -> [flags EXCEPT !.has_invoke = TRUE]
           [] callee.sym = "sleep" ->
                [flags EXCEPT !.has_sleep = TRUE, !.has_invoke = TRUE]
           [] callee.sym = "waitForCallback" ->
                [flags EXCEPT !.has_wait_for_callback = TRUE]
           [] OTHER -> flags

\* A variant of the callee test that does not know invoke.
MarkSpecialCall_IgnoresInvoke(flags, callee) ==
    IF callee.k # "Ident" THEN flags
    ELSE CASE callee.sym = "sleep" -> [flags EXCEPT !.has_sleep = TRUE]
           [] callee.sym = "waitForCallback" ->
                [flags EXCEPT !.has_wait_for_callback = TRUE]
           [] OTHER -> flags

\* The three flags a reserved callee sets, here on any record that has them.
MarkSpecialCall(flags, callee) ==
    IF callee.k # "Ident" THEN flags
    ELSE CASE callee.sym = "invoke" -> [flags EXCEPT !.has_invoke = TRUE]
           [] callee.sym = "sleep" -> [flags EXCEPT !.has_sleep = TRUE]
           [] callee.sym = "waitForCallback" ->
                [flags EXCEPT !.has_wait_for_callback = TRUE]
           [] OTHER -> flags

RECURSIVE scan_expr(_, _), scan_exprs(_, _), scan_stmt(_, _), scan_stmts(_, _)
RECURSIVE scan_props(_, _), scan_decls(_, _)

\* CallScanner::visit_call_expr: the callee's name, then the arguments only.
scan_call_expr(sc, call) == scan_exprs(MarkSpecialCall(sc, call.callee), call.args)

\* CallScanner's inherited traversal of an expression.
scan_expr(sc, e) ==
    CASE e.k = "Call" -> scan_call_expr(sc, e)
      [] e.k = "Await" -> scan_expr(sc, e.arg)
      [] e.k = "Assign" -> scan_expr(scan_expr(sc, e.left), e.right)
      [] e.k = "Bin" -> scan_expr(scan_expr(sc, e.left), e.right)
      [] e.k = "Member" -> scan_expr(sc, e.obj)
      [] e.k = "New" -> scan_exprs(scan_expr(sc, e.callee), e.args)
      [] e.k = "Object" -> scan_props(sc, e.props)
      [] e.k = "Array" -> scan_exprs(sc, e.elems)
      [] e.k = "Arrow" ->
            IF e.body.k = "BlockStmt" THEN scan_stmts(sc, e.body.stmts)
            ELSE scan_expr(sc, e.body)
      [] e.k = "Fn" -> scan_stmts(sc, e.body.stmts)
      [] OTHER -> sc

scan_exprs(sc, es) ==
    IF es = <<>> THEN sc ELSE scan_exprs(scan_expr(sc, Head(es)), Tail(es))

scan_props(sc, ps) ==
    IF ps = <<>> THEN sc ELSE scan_props(scan_expr(sc, Head(ps).value), Tail(ps))

scan_decls(sc, ds) ==
    IF ds = <<>> THEN sc
    ELSE scan_decls(IF IsSome(Head(ds).init) THEN scan_expr(sc, Head(ds).init)
                    ELSE sc, Tail(ds))

\* CallScanner's inherited traversal of a statement.
scan_stmt(sc, s) ==
    CASE s.k = "Expr" -> scan_expr(sc, s.expr)
      [] s.k = "Return" -> IF IsSome(s.arg) THEN scan_expr(sc, s.arg) ELSE sc
      [] s.k = "If" -> scan_stmt(scan_expr(sc, s.test), s.cons)
      [] s.k = "BlockStmt" -> scan_stmts(sc, s.stmts)
      [] s.k = "FnDecl" -> scan_stmts(sc, s.body.stmts)
      [] s.k = "VarDecl" -> scan_decls(sc, s.decls)
      [] OTHER -> sc

scan_stmts(sc, ss) ==
    IF ss = <<>> THEN sc ELSE scan_stmts(scan_stmt(sc, Head(ss)), Tail(ss))

\* Collector::scan_block_for_special_calls
scan_block_for_special_calls(c, block) ==
    LET scanner == scan_stmts([has_invoke |-> FALSE, has_sleep |-> FALSE,
                               has_wait_for_callback |-> FALSE], block.stmts)
    IN  [c EXCEPT !.info.has_invoke = @ \/ scanner.has_invoke,
                  !.info.has_sleep = @ \/ scanner.has_sleep,
                  !.info.has_wait_for_callback = @ \/ scanner.has_wait_for_callback]

\* The registration shared by visit_fn_decl and visit_var_declarator.
RegisterBody(c, name, is_async, body) ==
    LET c1 == IF block_has_workflow_directive(body)
              THEN [c EXCEPT !.info.workflow_fns = Append(@,
                        WorkflowFnInfo(name, c.current_export,
                                       c.current_default_export, is_async))]
              ELSE c
        c2 == IF block_has_step_directive(body)
              THEN [c1 EXCEPT !.info.step_fn_names = Append(@, name),
                              !.info.step_fns =
                                  HashMapInsert(@, name, StepFnInfo(name, body))]
              ELSE c1
    IN  scan_block_for_special_calls(c2, body)

\* Collector::visit_fn_decl (does not descend into the body itself)
visit_fn_decl(c, fn_decl) ==
    RegisterBody(c, fn_decl.ident, fn_decl.is_async, fn_decl.body)

\* extract_fn_body: <<is_async, Option<BlockStmt>>>
extract_fn_body(expr) ==
    CASE expr.k = "Arrow" ->
            <<expr.is_async, IF expr.body.k = "BlockStmt" THEN expr.body ELSE NoneV>>
      [] expr.k = "Fn" -> <<expr.is_async, expr.body>>
      [] OTHER -> <<FALSE, NoneV>>

\* Collector::visit_var_declarator (does not descend into the initializer)
visit_var_declarator(c, var) ==
    IF ~IsSome(var.init) \/ var.name.k # "PatIdent" THEN c
    ELSE LET fb == extract_fn_body(var.init)
         IN  IF IsSome(fb[2]) THEN RegisterBody(c, var.name.sym, fb[1], fb[2])
             ELSE c

RECURSIVE visit_expr(_, _), visit_exprs(_, _), visit_stmt(_, _), visit_stmts(_, _)
RECURSIVE visit_props(_, _), visit_var_declarators(_, _)

\* Collector::visit_call_expr: the callee's name, then the arguments only.
visit_call_expr(c, call) ==
    visit_exprs([c EXCEPT !.info = MarkSpecialCall(@, call.callee)], call.args)

\* The Collector's inherited traversal of an expression.
visit_expr(c, e) ==
    CASE e.k = "Call" -> visit_call_expr(c, e)
      [] e.k = "Await" -> visit_expr(c, e.arg)
      [] e.k = "Assign" -> visit_expr(visit_expr(c, e.left), e.right)
      [] e.k = "Bin" -> visit_expr(visit_expr(c, e.left), e.right)
      [] e.k = "Member" -> visit_expr(c, e.obj)
      [] e.k = "New" -> visit_exprs(visit_expr(c, e.callee), e.args)
      [] e.k = "Object" -> visit_props(c, e.props)
      [] e.k = "Array" -> visit_exprs(c, e.elems)
      [] e.k = "Arrow" ->
            IF e.body.k = "BlockStmt" THEN visit_stmts(c, e.body.stmts)
            ELSE visit_expr(c, e.body)
      [] e.k = "Fn" -> visit_stmts(c, e.body.stmts)
      [] OTHER -> c

visit_exprs(c, es) ==
    IF es = <<>> THEN c ELSE visit_exprs(visit_expr(c, Head(es)), Tail(es))

visit_props(c, ps) ==
    IF ps = <<>> THEN c ELSE visit_props(visit_expr(c, Head(ps).value), Tail(ps))

visit_var_declarators(c, ds) ==
    IF ds = <<>> THEN c
    ELSE visit_var_declarators(visit_var_declarator(c, Head(ds)), Tail(ds))

\* The Collector's inherited traversal of a statement or declaration.
visit_stmt(c, s) ==
    CASE s.k = "Expr" -> visit_expr(c, s.expr)
      [] s.k = "Return" -> IF IsSome(s.arg) THEN visit_expr(c, s.arg) ELSE c
      [] s.k = "If" -> visit_stmt(visit_expr(c, s.test), s.cons)
      [] s.k = "BlockStmt" -> visit_stmts(c, s.stmts)
      [] s.k = "FnDecl" -> visit_fn_decl(c, s)
      [] s.k = "VarDecl" -> visit_var_declarators(c, s.decls)
      [] OTHER -> c

visit_stmts(c, ss) ==
    IF ss = <<>> THEN c ELSE visit_stmts(visit_stmt(c, Head(ss)), Tail(ss))

\* visit_module_items, first loop: a bare top-level "use workflow" directive.
ScanModuleDirective(c, items) ==
    IF \E i \in 1..Len(items) :
          items[i].k = "Stmt" /\ is_use_workflow_directive(items[i].stmt)
    THEN [c EXCEPT !.info.has_module_workflow_directive = TRUE]
    ELSE c

\* The name an import specifier imports.
ImportedName(spec) ==
    CASE spec.k = "Named" ->
            IF IsSome(spec.imported)
            THEN (IF spec.imported.k = "Ident" THEN spec.imported.sym
                  ELSE spec.imported.value)
            ELSE spec.local
      [] spec.k = "Default" -> "default"
      [] spec.k = "Namespace" -> "*"

\* A variant of the relative-source test that accepts every source that
\* starts with a dot.
IsRelativeSource_AnyDot(src) == StartsWith(src, <<".">>)

\* src.starts_with("./") || src.starts_with("../")
IsRelativeSource(src) ==
    StartsWith(src, <<".", "/">>) \/ StartsWith(src, <<".", ".", "/">>)

\* The WorkflowImportInfo records one import declaration contributes.
ImportInfos(import) ==
    IF IsRelativeSource(import.src)
    THEN [j \in 1..Len(import.specifiers) |->
            WorkflowImportInfo(import.specifiers[j].local,
                               ImportedName(import.specifiers[j]), import.src)]
    ELSE <<>>

\* visit_module_items, second loop: the specifiers of relative imports.
CollectImports(c, items) ==
    [c EXCEPT !.info.workflow_imports = @ \o
        Flatten([i \in 1..Len(items) |->
                    IF items[i].k = "Import" THEN ImportInfos(items[i]) ELSE <<>>])]

\* visit_module_items, third loop, one item.
VisitItem(c, item) ==
    CASE item.k = "ExportDecl" ->
            LET c1 == [c EXCEPT !.current_export = TRUE,
                                !.current_default_export = FALSE]
            IN  [visit_stmt(c1, item.decl) EXCEPT !.current_export = FALSE]
      [] item.k = "ExportDefaultDecl" ->
            LET c1 == [c EXCEPT !.current_export = TRUE,
                                !.current_default_export = TRUE]
            IN  [visit_expr(c1, item.decl) EXCEPT !.current_export = FALSE,
                                                  !.current_default_export = FALSE]
      [] item.k = "Stmt" -> visit_stmt(c, item.stmt)
      [] OTHER -> c

RECURSIVE VisitItems(_, _)
VisitItems(c, items) ==
    IF items = <<>> THEN c ELSE VisitItems(VisitItem(c, Head(items)), Tail(items))

\* Collector::visit_module_items
visit_module_items(c, items) ==
    VisitItems(CollectImports(ScanModuleDirective(c, items), items), items)

\* module.visit_with(&mut collector); collector.info
Collect(items) == visit_module_items(CollectorNew, items).info

(***************************************************************************)
(* transform.rs: pass 2.                                                   *)
(***************************************************************************)
\* WorkflowTransformer::is_step_fn_call: Some(name) as <<name>>, None as <<>>.
is_step_fn_call(inf, callee) ==
    IF callee.k = "Ident" /\ callee.sym \in DOMAIN inf.step_fns
    THEN <<callee.sym>> ELSE <<>>

\* WorkflowTransformer::is_special_call
is_special_call(callee) ==
    IF callee.k = "Ident" /\ callee.sym \in {"invoke", "sleep", "waitForCallback"}
    THEN <<callee.sym>> ELSE <<>>

\* WorkflowTransformer::is_step_fn_name
is_step_fn_name(inf, name) ==
    \E i \in 1..Len(inf.step_fn_names) : inf.step_fn_names[i] = name

\* WorkflowTransformer::find_workflow_fn: the first match, Some(w) as <<w>>.
find_workflow_fn(inf, name) ==
    LET hits == SelectSeq(inf.workflow_fns, LAMBDA w : w.name = name)
    IN  IF hits = <<>> THEN <<>> ELSE <<Head(hits)>>

\* extract_arrow_body: Option<BlockStmt>
extract_arrow_body(expr) ==
    CASE expr.k = "Arrow" -> IF expr.body.k = "BlockStmt" THEN expr.body ELSE NoneV
      [] expr.k = "Fn" -> expr.body
      [] OTHER -> NoneV

\* A variant of the step body filter that keeps the directive.
StepBodyStmts_KeepDirective(step_info) == step_info.body.stmts

\* The body spliced into ctx.step: the captured statements minus "use step".
StepBodyStmts(step_info) ==
    SelectSeq(step_info.body.stmts, LAMBDA st : ~is_use_step_directive(st))

RECURSIVE transform_expr(_, _)
\* A variant of transform_expr that rewrites invoke with one argument too.
transform_expr_InvokeOneArg(inf, expr) ==
    CASE expr.k = "Call" ->
            LET step == is_step_fn_call(inf, expr.callee)
                special == is_special_call(expr.callee)
                recursed ==
                    CallExpr(expr.callee,
                             [i \in 1..Len(expr.args) |->
                                 transform_expr(inf, expr.args[i])])
            IN  IF step # <<>>
                THEN create_ctx_step_call(step[1],
                                          StepBodyStmts(inf.step_fns[step[1]]))
                ELSE IF special = <<"invoke">> /\ Len(expr.args) >= 1
                THEN create_invoke_step(expr.args[1], expr.args[Len(expr.args)])
                ELSE IF special = <<"sleep">> /\ Len(expr.args) >= 1
                THEN create_ctx_wait_call(expr.args[1])
                ELSE IF special = <<"waitForCallback">>
                THEN create_ctx_wait_for_callback_call(expr.args)
                ELSE recursed
      [] expr.k = "Await" -> AwaitExpr(transform_expr(inf, expr.arg))
      [] expr.k = "Assign" ->
            AssignExpr(expr.left, transform_expr(inf, expr.right))
      [] OTHER -> expr

\* A variant of transform_expr that also rewrites the object of a member access.
transform_expr_IntoMember(inf, expr) ==
    CASE expr.k = "Call" ->
            LET step == is_step_fn_call(inf, expr.callee)
                special == is_special_call(expr.callee)
                recursed ==
                    CallExpr(expr.callee,
                             [i \in 1..Len(expr.args) |->
                                 transform_expr(inf, expr.args[i])])
            IN  IF step # <<>>
                THEN create_ctx_step_call(step[1],
                                          StepBodyStmts(inf.step_fns[step[1]]))
                ELSE IF special = <<"invoke">> /\ Len(expr.args) >= 2
                THEN create_invoke_step(expr.args[1], expr.args[2])
                ELSE IF special = <<"sleep">> /\ Len(expr.args) >= 1
                THEN create_ctx_wait_call(expr.args[1])
                ELSE IF special = <<"waitForCallback">>
                THEN create_ctx_wait_for_callback_call(expr.args)
                ELSE recursed
      [] expr.k = "Await" -> AwaitExpr(transform_expr(inf, expr.arg))
      [] expr.k = "Assign" ->
            AssignExpr(expr.left, transform_expr(inf, expr.right))
      [] expr.k = "Member" ->
            MemberExpr(transform_expr(inf, expr.obj), expr.prop)
      [] OTHER -> expr

\* WorkflowTransformer::transform_expr
transform_expr(inf, expr) ==
    CASE expr.k = "Call" ->
            LET step == is_step_fn_call(inf, expr.callee)
                special == is_special_call(expr.callee)
                recursed ==
                    CallExpr(expr.callee,
                             [i \in 1..Len(expr.args) |->
                                 transform_expr(inf, expr.args[i])])
            IN  IF step # <<>>
                THEN create_ctx_step_call(step[1],
                                          StepBodyStmts(inf.step_fns[step[1]]))
                ELSE IF special = <<"invoke">> /\ Len(expr.args) >= 2
                THEN create_invoke_step(expr.args[1], expr.args[2])
                ELSE IF special = <<"sleep">> /\ Len(expr.args) >= 1
                THEN create_ctx_wait_call(expr.args[1])
                ELSE IF special = <<"waitForCallback">>
                THEN create_ctx_wait_for_callback_call(expr.args)
                ELSE recursed
      [] expr.k = "Await" -> AwaitExpr(transform_expr(inf, expr.arg))
      [] expr.k = "Assign" ->
            AssignExpr(expr.left, transform_expr(inf, expr.right))
      [] OTHER -> expr

\* A variant of transform_stmt that also rewrites the statement under an if.
transform_stmt_IntoIf(inf, stmt) ==
    CASE stmt.k = "Expr" -> ExprStmt(transform_expr(inf, stmt.expr))
      [] stmt.k = "VarDecl" ->
            [stmt EXCEPT !.decls =
                [i \in 1..Len(stmt.decls) |->
                    VarDeclarator(stmt.decls[i].name,
                        IF IsSome(stmt.decls[i].init)
                        THEN transform_expr(inf, stmt.decls[i].init)
                        ELSE NoneV)]]
      [] stmt.k = "Return" ->
            ReturnStmt(IF IsSome(stmt.arg) THEN transform_expr(inf, stmt.arg)
                       ELSE NoneV)
      [] stmt.k = "If" ->
            IfStmt(stmt.test,
                   IF stmt.cons.k = "Expr"
                   THEN ExprStmt(transform_expr(inf, stmt.cons.expr))
                   ELSE stmt.cons)
      [] OTHER -> stmt

\* WorkflowTransformer::transform_stmt
transform_stmt(inf, stmt) ==
    CASE stmt.k = "Expr" -> ExprStmt(transform_expr(inf, stmt.expr))
      [] stmt.k = "VarDecl" ->
            [stmt EXCEPT !.decls =
                [i \in 1..Len(stmt.decls) |->
                    VarDeclarator(stmt.decls[i].name,
                        IF IsSome(stmt.decls[i].init)
                        THEN transform_expr(inf, stmt.decls[i].init)
                        ELSE NoneV)]]
      [] stmt.k = "Return" ->
            ReturnStmt(IF IsSome(stmt.arg) THEN transform_expr(inf, stmt.arg)
                       ELSE NoneV)
      [] OTHER -> stmt

\* WorkflowTransformer::transform_workflow_body
transform_workflow_body(inf, stmts) ==
    LET kept == SelectSeq(stmts, LAMBDA st :
                    ~is_use_workflow_directive(st) /\ ~is_use_step_directive(st))
    IN  [i \in 1..Len(kept) |-> transform_stmt(inf, kept[i])]

\* The wrappers the two variable-declaration arms push, one per declarator that
\* names a registered workflow and is initialised with a function.
WorkflowVarWrappers(inf, var_decl, is_exported) ==
    Flatten([i \in 1..Len(var_decl.decls) |->
        LET d == var_decl.decls[i]
            wf == IF d.name.k = "PatIdent" THEN find_workflow_fn(inf, d.name.sym)
                  ELSE <<>>
            body == IF wf # <<>> /\ IsSome(d.init) THEN extract_arrow_body(d.init)
                    ELSE NoneV
        IN  IF IsSome(body)
            THEN <<create_with_durable_execution_call(
                      wf[1].name, transform_workflow_body(inf, body.stmts),
                      is_exported, is_exported /\ wf[1].is_default_export)>>
            ELSE <<>>])

\* A variant of the loop body that does not keep a function declaration that
\* is neither a step nor a workflow.
TransformWorkflowItem_DropsPlainFn(inf, item) ==
    CASE item.k = "Stmt" /\ is_use_workflow_directive(item.stmt) -> <<>>
      [] item.k = "Stmt" /\ item.stmt.k = "FnDecl" ->
            IF is_step_fn_name(inf, item.stmt.ident) THEN <<>>
            ELSE IF find_workflow_fn(inf, item.stmt.ident) # <<>>
            THEN <<create_with_durable_execution_call(
                      find_workflow_fn(inf, item.stmt.ident)[1].name,
                      transform_workflow_body(inf, item.stmt.body.stmts),
                      FALSE, FALSE)>>
            ELSE <<>>
      [] item.k = "Stmt" /\ item.stmt.k = "VarDecl" ->
            IF \E i \in 1..Len(item.stmt.decls) :
                  /\ item.stmt.decls[i].name.k = "PatIdent"
                  /\ is_step_fn_name(inf, item.stmt.decls[i].name.sym)
            THEN <<>>
            ELSE LET pushed == WorkflowVarWrappers(inf, item.stmt, FALSE)
                 IN  IF pushed # <<>> THEN pushed ELSE <<item>>
      [] item.k = "ExportDecl" /\ item.decl.k = "FnDecl" ->
            LET wf == find_workflow_fn(inf, item.decl.ident)
            IN  IF wf # <<>>
                THEN <<create_with_durable_execution_call(
                          wf[1].name,
                          transform_workflow_body(inf, item.decl.body.stmts),
                          TRUE, wf[1].is_default_export)>>
                ELSE <<item>>
      [] item.k = "ExportDecl" /\ item.decl.k = "VarDecl" ->
            LET pushed == WorkflowVarWrappers(inf, item.decl, TRUE)
            IN  IF pushed # <<>> THEN pushed ELSE <<item>>
      [] OTHER -> <<item>>

\* transform_workflow_module, the body of the loop: what one drained item
\* pushes onto new_items.
TransformWorkflowItem(inf, item) ==
    CASE item.k = "Stmt" /\ is_use_workflow_directive(item.stmt) -> <<>>
      [] item.k = "Stmt" /\ item.stmt.k = "FnDecl" ->
            IF is_step_fn_name(inf, item.stmt.ident) THEN <<>>
            ELSE IF find_workflow_fn(inf, item.stmt.ident) # <<>>
            THEN <<create_with_durable_execution_call(
                      find_workflow_fn(inf, item.stmt.ident)[1].name,
                      transform_workflow_body(inf, item.stmt.body.stmts),
                      FALSE, FALSE)>>
            ELSE <<item>>
      [] item.k = "Stmt" /\ item.stmt.k = "VarDecl" ->
            IF \E i \in 1..Len(item.stmt.decls) :
                  /\ item.stmt.decls[i].name.k = "PatIdent"
                  /\ is_step_fn_name(inf, item.stmt.decls[i].name.sym)
            THEN <<>>
            ELSE LET pushed == WorkflowVarWrappers(inf, item.stmt, FALSE)
                 IN  IF pushed # <<>> THEN pushed ELSE <<item>>
      [] item.k = "ExportDecl" /\ item.decl.k = "FnDecl" ->
            LET wf == find_workflow_fn(inf, item.decl.ident)
            IN  IF wf # <<>>
                THEN <<create_with_durable_execution_call(
                          wf[1].name,
                          transform_workflow_body(inf, item.decl.body.stmts),
                          TRUE, wf[1].is_default_export)>>
                ELSE <<item>>
      [] item.k = "ExportDecl" /\ item.decl.k = "VarDecl" ->
            LET pushed == WorkflowVarWrappers(inf, item.decl, TRUE)
            IN  IF pushed # <<>> THEN pushed ELSE <<item>>
      [] OTHER -> <<item>>

\* A variant of the meta export that names the last collected workflow.
WorkflowMetaItems_Last(inf, step_keys) ==
    IF inf.workflow_fns # <<>>
    THEN <<create_workflow_meta_export(
                inf.workflow_fns[Len(inf.workflow_fns)].name, step_keys)>>
    ELSE <<>>

\* transform_workflow_module, step 3: the __workflowMeta export, if any.
\* step_keys is the order in which the HashMap yields its keys.
WorkflowMetaItems(inf, step_keys) ==
    IF inf.workflow_fns # <<>>
    THEN <<create_workflow_meta_export(inf.workflow_fns[1].name, step_keys)>>
    ELSE <<>>

\* A variant of the early return that also requires that no step was collected.
WorkflowShortCircuit_NoSteps(inf) ==
    /\ inf.workflow_fns = <<>>
    /\ inf.step_fn_names = <<>>
    /\ ~inf.has_module_workflow_directive

\* transform_workflow_module, the guard of the early return.
WorkflowShortCircuit(inf) ==
    inf.workflow_fns = <<>> /\ ~inf.has_module_workflow_directive

\* A variant of the prepended imports with the remote-invocation import first.
SdkImports_LambdaFirst(cfg, inf) ==
    (IF inf.has_invoke THEN <<create_lambda_sdk_import>> ELSE <<>>)
        \o <<create_sdk_import(cfg.package_name)>>

\* transform_workflow_module, step 1: the prepended imports.
SdkImports(cfg, inf) ==
    <<create_sdk_import(cfg.package_name)>>
        \o (IF inf.has_invoke THEN <<create_lambda_sdk_import>> ELSE <<>>)

\* WorkflowTransformer::transform_workflow_module
transform_workflow_module(cfg, inf, body, step_keys) ==
    IF WorkflowShortCircuit(inf) THEN body
    ELSE SdkImports(cfg, inf)
            \o Flatten([i \in 1..Len(body) |-> TransformWorkflowItem(inf, body[i])])
            \o WorkflowMetaItems(inf, step_keys)

\* A variant of the source set that holds the first collected source only.
WorkflowSources_FirstOnly(inf) ==
    IF inf.workflow_imports = <<>> THEN {} ELSE {inf.workflow_imports[1].source}

\* The sources of the collected imports (the HashSet of transform_client_module).
WorkflowSources(inf) ==
    {inf.workflow_imports[i].source : i \in 1..Len(inf.workflow_imports)}

\* A variant of the client loop body that replaces every import declaration.
TransformClientItem_EveryImport(cfg, inf, item) ==
    IF item.k = "Import"
    THEN <<<<>>, [j \in 1..Len(item.specifiers) |->
                    create_workflow_descriptor(item.specifiers[j].local,
                                               cfg.env_prefix)]>>
    ELSE <<<<item>>, <<>>>>

\* transform_client_module, the body of the loop: <<kept, descriptors>> of one item.
TransformClientItem(cfg, inf, item) ==
    IF item.k = "Import" /\ item.src \in WorkflowSources(inf)
    THEN <<<<>>, [j \in 1..Len(item.specifiers) |->
                    create_workflow_descriptor(item.specifiers[j].local,
                                               cfg.env_prefix)]>>
    ELSE <<<<item>>, <<>>>>

\* A variant of the insertion point that is always the end of the items.
FirstNonImport_End(items) == Len(items)

\* position(|item| !matches!(item, Import)).unwrap_or(len), as a count of the
\* items before it.
FirstNonImport(items) ==
    IF \E i \in 1..Len(items) : items[i].k # "Import"
    THEN (CHOOSE i \in 1..Len(items) :
            /\ items[i].k # "Import"
            /\ \A j \in 1..(i - 1) : items[j].k = "Import") - 1
    ELSE Len(items)

\* WorkflowTransformer::transform_client_module
transform_client_module(cfg, inf, body) ==
    IF inf.workflow_imports = <<>> THEN body
    ELSE LET parts == [i \in 1..Len(body) |-> TransformClientItem(cfg, inf, body[i])]
             new_items == Flatten([i \in 1..Len(body) |-> parts[i][1]])
             descriptors_to_add == Flatten([i \in 1..Len(body) |-> parts[i][2]])
             first_non_import == FirstNonImport(new_items)
         IN  SubSeq(new_items, 1, first_non_import)
                \o descriptors_to_add
                \o SubSeq(new_items, first_non_import + 1, Len(new_items))

\* WorkflowTransformer::visit_mut_module
visit_mut_module(cfg, inf, body, step_keys) ==
    IF cfg.mode = "workflow" THEN transform_workflow_module(cfg, inf, body, step_keys)
    ELSE transform_client_module(cfg, inf, body)

(***************************************************************************)
(* Input modules.  Each pool is a set of top-level items; a specification  *)
(* draws every sequence of at most MaxItems of them.                       *)
(***************************************************************************)
UseWorkflow == ExprStmt(StrLit("use workflow"))

UseStep == ExprStmt(StrLit("use step"))

Call0(name) == CallExpr(Ident(name), <<>>)

Call1(name, a) == CallExpr(Ident(name), <<a>>)

Call2(name, a, b) == CallExpr(Ident(name), <<a, b>>)

AsyncArrow(stmts) == ArrowExpr(<<>>, BlockStmt(stmts), TRUE)

ConstDecl(name, init) == VarDecl(<<VarDeclarator(PatIdent(name), init)>>)

\* async function s(x) { "use step"; return x; }
StepFnS ==
    ItemStmt(FnDecl("s", <<"x">>, BlockStmt(<<UseStep, ReturnStmt(Ident("x"))>>), TRUE))

\* const t = async () => { "use step"; await sleep(d); };
StepVarT ==
    ItemStmt(ConstDecl("t",
        AsyncArrow(<<UseStep, ExprStmt(AwaitExpr(Call1("sleep", Ident("d"))))>>)))

\* export async function es() { "use step"; return s(); }
ExportedStepFn ==
    ExportDecl(FnDecl("es", <<>>, BlockStmt(<<UseStep, ReturnStmt(Call0("s"))>>), TRUE))

\* async function wf(x) { "use workflow"; const r = await s(x); return t(); }
WorkflowFn ==
    ItemStmt(FnDecl("wf", <<"x">>,
        BlockStmt(<<UseWorkflow,
                    ConstDecl("r", AwaitExpr(Call1("s", Ident("x")))),
                    ReturnStmt(Call0("t"))>>), TRUE))

\* const wv = async () => { "use workflow"; es(1); };
WorkflowVar ==
    ItemStmt(ConstDecl("wv", AsyncArrow(<<UseWorkflow, ExprStmt(Call1("es", Ident("a")))>>)))

\* export async function we() { "use workflow"; await s(); }
ExportedWorkflowFn ==
    ExportDecl(FnDecl("we", <<>>,
        BlockStmt(<<UseWorkflow, ExprStmt(AwaitExpr(Call0("s")))>>), TRUE))

\* export const wg = async () => { "use workflow"; return s(); };
ExportedWorkflowVar ==
    ExportDecl(ConstDecl("wg", AsyncArrow(<<UseWorkflow, ReturnStmt(Call0("s"))>>)))

\* export default async function wd() { "use workflow"; return s(); }
DefaultWorkflowFn ==
    ExportDefaultDecl(FnExpr(Ident("wd"), <<>>,
        BlockStmt(<<UseWorkflow, ReturnStmt(Call0("s"))>>), TRUE))

\* "use workflow";
ModuleDirective == ItemStmt(UseWorkflow)

\* if (c) { function inner() { "use workflow"; } }
NestedWorkflowFn ==
    ItemStmt(IfStmt(Ident("c"),
        BlockStmt(<<FnDecl("inner", <<>>, BlockStmt(<<UseWorkflow>>), FALSE)>>)))

\* function plain() { return s(); }
PlainFn ==
    ItemStmt(FnDecl("plain", <<>>, BlockStmt(<<ReturnStmt(Call0("s"))>>), FALSE))

\* function both() { "use workflow"; "use step"; }
BothDirectivesFn ==
    ItemStmt(FnDecl("both", <<>>, BlockStmt(<<UseWorkflow, UseStep>>), FALSE))

\* const a = b, w2 = async () => { "use workflow"; };
MultiDeclarator ==
    ItemStmt(VarDecl(<<VarDeclarator(PatIdent("a"), Ident("b")),
                       VarDeclarator(PatIdent("w2"), AsyncArrow(<<UseWorkflow>>))>>))

DeclPool ==
    {StepFnS, StepVarT, ExportedStepFn, WorkflowFn, WorkflowVar, ExportedWorkflowFn,
     ExportedWorkflowVar, DefaultWorkflowFn, ModuleDirective, NestedWorkflowFn,
     PlainFn, BothDirectivesFn, MultiDeclarator}

\* invoke(f, p)
InvokeCall == Call2("invoke", Ident("f"), Ident("p"))

\* async function w1() { "use workflow"; invoke(f, p); }
WfInvokeStmt ==
    ItemStmt(FnDecl("w1", <<>>, BlockStmt(<<UseWorkflow, ExprStmt(InvokeCall)>>), TRUE))

\* const w2 = async () => { "use workflow"; const r = await invoke(f, p); };
WfInvokeAwaitVar ==
    ItemStmt(ConstDecl("w2",
        AsyncArrow(<<UseWorkflow, ConstDecl("r", AwaitExpr(InvokeCall))>>)))

\* export async function w3() { "use workflow"; return invoke(f, p); }
WfInvokeReturn ==
    ExportDecl(FnDecl("w3", <<>>, BlockStmt(<<UseWorkflow, ReturnStmt(InvokeCall)>>), TRUE))

\* async function w4() { "use workflow"; await sleep(d); }
WfSleep ==
    ItemStmt(FnDecl("w4", <<>>,
        BlockStmt(<<UseWorkflow, ExprStmt(AwaitExpr(Call1("sleep", Ident("d"))))>>), TRUE))

\* export const w5 = async () => { "use workflow"; return waitForCallback(cb); };
WfWaitForCallback ==
    ExportDecl(ConstDecl("w5",
        AsyncArrow(<<UseWorkflow, ReturnStmt(Call1("waitForCallback", Ident("cb")))>>)))

\* async function w6() { "use workflow"; invoke(f); }
WfInvokeOneArg ==
    ItemStmt(FnDecl("w6", <<>>,
        BlockStmt(<<UseWorkflow, ExprStmt(Call1("invoke", Ident("f")))>>), TRUE))

\* async function w7() { "use workflow"; invoke(f, p).then(g); }
WfInvokeThen ==
    ItemStmt(FnDecl("w7", <<>>,
        BlockStmt(<<UseWorkflow,
                    ExprStmt(CallExpr(MemberExpr(InvokeCall, IdentName("then")),
                                      <<Ident("g")>>))>>), TRUE))

\* async function w8() { "use workflow"; if (c) invoke(f, p); }
WfInvokeInIf ==
    ItemStmt(FnDecl("w8", <<>>,
        BlockStmt(<<UseWorkflow, IfStmt(Ident("c"), ExprStmt(InvokeCall))>>), TRUE))

\* function helper() { invoke(f, p); }
PlainInvokeFn ==
    ItemStmt(FnDecl("helper", <<>>, BlockStmt(<<ExprStmt(InvokeCall)>>), FALSE))

\* invoke(f, p);
TopLevelInvoke == ItemStmt(ExprStmt(InvokeCall))

\* const x = invoke(f, p);
TopLevelInvokeVar == ItemStmt(ConstDecl("x", InvokeCall))

\* async function si() { "use step"; return invoke(f, p); }
StepInvokeFn ==
    ItemStmt(FnDecl("si", <<>>, BlockStmt(<<UseStep, ReturnStmt(InvokeCall)>>), TRUE))

\* import { LambdaClient } from "@aws-sdk/client-lambda";
UserLambdaImport == ImportDecl(<<ImportNamed("LambdaClient", NoneV)>>, LambdaSdkSource)

CallPool ==
    {WfInvokeStmt, WfInvokeAwaitVar, WfInvokeReturn, WfSleep, WfWaitForCallback,
     WfInvokeOneArg, WfInvokeThen, WfInvokeInIf, PlainInvokeFn, TopLevelInvoke,
     TopLevelInvokeVar, StepInvokeFn, UserLambdaImport}

\* import { wa } from "./a";
ImportWa == ImportDecl(<<ImportNamed("wa", NoneV)>>, <<".", "/", "a">>)

\* import dflt from "../b";
ImportDflt == ImportDecl(<<ImportDefault("dflt")>>, <<".", ".", "/", "b">>)

\* import * as ns from "./a";
ImportNs == ImportDecl(<<ImportNamespace("ns")>>, <<".", "/", "a">>)

\* import "./a";
ImportSideEffect == ImportDecl(<<>>, <<".", "/", "a">>)

\* import "../e";
ImportSideEffectOnly == ImportDecl(<<>>, <<".", ".", "/", "e">>)

\* import { util } from "pkg";
ImportUtil == ImportDecl(<<ImportNamed("util", NoneV)>>, <<"p", "k", "g">>)

\* import { cfg as wb } from ".c";
ImportDotC == ImportDecl(<<ImportNamed("wb", Ident("cfg"))>>, <<".", "c">>)

\* import { wa, "x-y" as wb } from "./d";
ImportTwo ==
    ImportDecl(<<ImportNamed("wa", NoneV), ImportNamed("wb", StrLit("x-y"))>>,
               <<".", "/", "d">>)

\* wa();
TopLevelCall == ItemStmt(ExprStmt(Call0("wa")))

ClientPool ==
    {ImportWa, ImportDflt, ImportNs, ImportSideEffect, ImportSideEffectOnly,
     ImportUtil, ImportDotC, ImportTwo, TopLevelCall, PlainFn, ExportedWorkflowFn}

\* s(q)
StepCallQ == Call1("s", Ident("q"))

\* async function u() { "use step"; return s(q); }
StepCallsStep ==
    ItemStmt(FnDecl("u", <<>>, BlockStmt(<<UseStep, ReturnStmt(StepCallQ)>>), TRUE))

\* async function b1() { "use workflow"; s(q, t()); const r = await s(); return u(); }
WfStepArgs ==
    ItemStmt(FnDecl("b1", <<>>,
        BlockStmt(<<UseWorkflow,
                    ExprStmt(Call2("s", Ident("q"), Call0("t"))),
                    ConstDecl("r", AwaitExpr(Call0("s"))),
                    ReturnStmt(Call0("u"))>>), TRUE))

\* async function b2() { "use workflow"; invoke(s(q)); await sleep(); return invoke(); }
WfWrongArity ==
    ItemStmt(FnDecl("b2", <<>>,
        BlockStmt(<<UseWorkflow,
                    ExprStmt(Call1("invoke", StepCallQ)),
                    ExprStmt(AwaitExpr(Call0("sleep"))),
                    ReturnStmt(Call0("invoke"))>>), TRUE))

\* export const b3 = async () => { "use workflow";
\*   if (c) s(q); { t(); } function g() { sleep(d); } return t(); };
WfNestedStmts ==
    ExportDecl(ConstDecl("b3",
        AsyncArrow(<<UseWorkflow,
                     IfStmt(Ident("c"), ExprStmt(StepCallQ)),
                     BlockStmt(<<ExprStmt(Call0("t"))>>),
                     FnDecl("g", <<>>,
                            BlockStmt(<<ExprStmt(Call1("sleep", Ident("d")))>>), FALSE),
                     ReturnStmt(Call0("t"))>>)))

\* async function b4() { "use workflow"; r = s(q); f(sleep(d), invoke(f, p), invoke(t())); }
WfNestedExprs ==
    ItemStmt(FnDecl("b4", <<>>,
        BlockStmt(<<UseWorkflow,
                    ExprStmt(AssignExpr(Ident("r"), StepCallQ)),
                    ExprStmt(CallExpr(Ident("f"),
                        <<Call1("sleep", Ident("d")), InvokeCall,
                          Call1("invoke", Call0("t"))>>))>>), TRUE))

\* async function b5() { "use workflow";
\*   s(q).then(s(q));
\*   s(q).v = sleep(d);
\*   return await f(s(q).v, s(q) + a, { k: s(q) }, [s(q)], new C(s(q)), () => s(q)); }
WfExprKinds ==
    ItemStmt(FnDecl("b5", <<>>,
        BlockStmt(<<UseWorkflow,
                    ExprStmt(CallExpr(MemberExpr(StepCallQ, IdentName("then")),
                                      <<StepCallQ>>)),
                    ExprStmt(AssignExpr(MemberExpr(StepCallQ, IdentName("v")),
                                        Call1("sleep", Ident("d")))),
                    ReturnStmt(AwaitExpr(CallExpr(Ident("f"),
                        <<MemberExpr(StepCallQ, IdentName("v")),
                          BinExpr(StepCallQ, Ident("a")),
                          ObjectLit(<<KeyValueProp("k", StepCallQ)>>),
                          ArrayLit(<<StepCallQ>>),
                          NewExpr(Ident("C"), <<StepCallQ>>),
                          ArrowExpr(<<>>, StepCallQ, FALSE)>>)))>>), TRUE))

\* async function b6() { "use workflow";
\*   r = await invoke(f, p);
\*   g(q).then(invoke(f, p));
\*   return invoke(f, p).then(g); }
WfInvokeDeep ==
    ItemStmt(FnDecl("b6", <<>>,
        BlockStmt(<<UseWorkflow,
                    ExprStmt(AssignExpr(Ident("r"), AwaitExpr(InvokeCall))),
                    ExprStmt(CallExpr(MemberExpr(Call1("g", Ident("q")),
                                                 IdentName("then")),
                                      <<InvokeCall>>)),
                    ReturnStmt(CallExpr(MemberExpr(InvokeCall, IdentName("then")),
                                        <<Ident("g")>>))>>), TRUE))

BodyPool ==
    {StepFnS, StepVarT, StepCallsStep, WfStepArgs, WfWrongArity, WfNestedStmts,
     WfNestedExprs, WfExprKinds, WfInvokeDeep}

\* Every module of at most MaxItems items of the pool.
Modules(pool) == UNION {[1..n -> pool] : n \in 0..MaxItems}

WorkflowConfig == PluginConfig("workflow", default_package_name, default_env_prefix)

\* No configuration.
NoConfigBlob == NoneV

\* { "packageName": "pkg" }
PackageBlob ==
    ConfigText(JsonObject(<<<<"packageName", JsonStr(<<"p", "k", "g">>)>>>>))

\* { "mode": "client" }
ClientBlob ==
    ConfigText(JsonObject(<<<<"mode", JsonStr(<<"c", "l", "i", "e", "n", "t">>)>>>>))

\* The members of the configuration objects drawn as inputs: the three
\* fields and a snake_case key the struct does not know, each with a mode
\* name, another string or a number.
ConfigMembers ==
    {"mode", "packageName", "envPrefix", "package_name"}
        \X {JsonStr(<<"c", "l", "i", "e", "n", "t">>), JsonStr(<<"p", "k", "g">>),
            JsonNum(5)}

\* Every configuration: none, a text that is not JSON, null, and every
\* object of at most MaxFields members.
ConfigBlobs ==
    {NoneV, ConfigText(JsonInvalid), ConfigText(JsonNull)}
        \cup {ConfigText(JsonObject(m)) :
                m \in UNION {[1..n -> ConfigMembers] : n \in 0..MaxFields}}

\* The modules the configurations are tried on.
ConfigModules ==
    {<<ImportWa, ExportedWorkflowFn>>, <<ExportedWorkflowFn>>, <<ImportWa>>}

\* { "packageName": "pkg" }
PackageConfig == PluginConfig("workflow", <<"p", "k", "g">>, default_env_prefix)

ClientConfig == PluginConfig("client", default_package_name, default_env_prefix)

(***************************************************************************)
(* The state machine: TransformPass::visit_mut_module, one module at a     *)
(* time, pass 1 then pass 2; the host may run the plugin on its own output.*)
(***************************************************************************)
TypeOK ==
    /\ pc \in {"resolve", "collect", "transform", "done"}
    /\ run \in 1..MaxRuns
    /\ pc # "resolve" => config.mode \in {"workflow", "client"}

\* The orders in which a HashMap with the key set keys may yield its keys.
KeyOrders(keys) ==
    {o \in [1..Cardinality(keys) -> keys] : Range(o) = keys}

\* process_transform is handed a program and the plugin's metadata.
InitOn(modules, blobs) ==
    /\ module \in modules
    /\ input = module
    /\ metadata \in blobs
    /\ config = NoneV
    /\ info = CollectedInfoDefault
    /\ pc = "resolve"
    /\ run = 1

InitWith(pool, blobs) == InitOn(Modules(pool), blobs)

Init == InitWith(DeclPool, {NoConfigBlob})

InitCalls == InitWith(CallPool, {NoConfigBlob, PackageBlob})

InitClient == InitWith(ClientPool, {ClientBlob})

InitBody == InitWith(BodyPool, {NoConfigBlob})

InitConfig == InitOn(ConfigModules, ConfigBlobs)

\* metadata.get_transform_plugin_config()
\*     .and_then(|json_str| serde_json::from_str(&json_str).ok())
\*     .unwrap_or_default()
resolve_config(md) ==
    IF ~IsSome(md) THEN PluginConfigDefault
    ELSE IF from_str(md.json) = <<>> THEN PluginConfigDefault
    ELSE from_str(md.json)[1]

\* process_transform, the configuration.
ResolveConfig ==
    /\ pc = "resolve"
    /\ config' = resolve_config(metadata)
    /\ pc' = "collect"
    /\ UNCHANGED <<module, info, input, run, metadata>>

\* Pass 1: Collector::new, module.visit_with(&mut collector).
CollectPass ==
    /\ pc = "collect"
    /\ info' = Collect(module)
    /\ pc' = "transform"
    /\ UNCHANGED <<module, config, input, run, metadata>>

\* A variant of pass 2 that leaves the fact sheet emptied.
TransformPass_DrainsInfo ==
    /\ pc = "transform"
    /\ \E step_keys \in KeyOrders(DOMAIN info.step_fns) :
          module' = visit_mut_module(config, info, module, step_keys)
    /\ info' = CollectedInfoDefault
    /\ pc' = "done"
    /\ UNCHANGED <<config, input, run, metadata>>

\* Pass 2: WorkflowTransformer::new(config, collector.info), visit_mut_module.
TransformPass ==
    /\ pc = "transform"
    /\ \E step_keys \in KeyOrders(DOMAIN info.step_fns) :
          module' = visit_mut_module(config, info, module, step_keys)
    /\ pc' = "done"
    /\ UNCHANGED <<config, info, input, run, metadata>>

\* The host hands the rewritten module to the plugin again.
Reapply ==
    /\ pc = "done"
    /\ run < MaxRuns
    /\ input' = module
    /\ info' = CollectedInfoDefault
    /\ pc' = "resolve"
    /\ run' = run + 1
    /\ UNCHANGED <<module, config, metadata>>

Next == ResolveConfig \/ CollectPass \/ TransformPass \/ Reapply

Spec == Init /\ [][Next]_vars

\* The same program on modules of special calls, under two package names.
SpecCalls == InitCalls /\ [][Next]_vars

\* The same program in client mode, on modules of imports.
SpecClient == InitClient /\ [][Next]_vars

\* The same program on modules of steps and of workflows that call them.
SpecBody == InitBody /\ [][Next]_vars

\* The same program under every configuration.
SpecConfig == InitConfig /\ [][Next]_vars

(***************************************************************************)
(* Vocabulary of the properties: syntax-level notions, stated on the trees *)
(* themselves and not through the collector or the transformer.            *)
(***************************************************************************)
\* The direct children of a node.
Children(n) ==
    CASE n.k = "Call" -> {n.callee} \cup Range(n.args)
      [] n.k = "New" -> {n.callee} \cup Range(n.args)
      [] n.k = "Await" -> {n.arg}
      [] n.k = "Assign" -> {n.left, n.right}
      [] n.k = "Bin" -> {n.left, n.right}
      [] n.k = "Member" -> {n.obj}
      [] n.k = "Object" -> {n.props[i].value : i \in 1..Len(n.props)}
      [] n.k = "Array" -> Range(n.elems)
      [] n.k \in {"Arrow", "Fn", "FnDecl"} -> {n.body}
      [] n.k = "BlockStmt" -> Range(n.stmts)
      [] n.k = "Expr" -> {n.expr}
      [] n.k = "Return" -> {n.arg}
      [] n.k = "If" -> {n.test, n.cons}
      [] n.k = "VarDecl" -> {n.decls[i].init : i \in 1..Len(n.decls)}
      [] n.k = "Stmt" -> {n.stmt}
      [] n.k \in {"ExportDecl", "ExportDefaultDecl"} -> {n.decl}
      [] OTHER -> {}

RECURSIVE NodesOf(_)
\* Every node of the tree rooted at n.
NodesOf(n) == {n} \cup UNION {NodesOf(c) : c \in Children(n)}

\* Every node of a module.
ModuleNodes(items) == UNION {NodesOf(items[i]) : i \in 1..Len(items)}

\* A statement that is exactly the bare string literal text.
IsBareString(stmt, text) == stmt = ExprStmt(StrLit(text))

\* A function-like node whose block body has the directive among its statements.
IsFunctionWith(n, text) ==
    /\ n.k \in {"Arrow", "Fn", "FnDecl"}
    /\ n.body.k = "BlockStmt"
    /\ \E i \in 1..Len(n.body.stmts) : IsBareString(n.body.stmts[i], text)

\* Some function body, at any depth, carries "use workflow".
SomeFunctionIsWorkflow(items) ==
    \E n \in ModuleNodes(items) : IsFunctionWith(n, "use workflow")

\* A bare "use workflow" statement among the top-level items.
HasTopLevelDirective(items) ==
    \E i \in 1..Len(items) : items[i] = ItemStmt(ExprStmt(StrLit("use workflow")))

WorkflowMode == config.mode = "workflow"

ClientMode == config.mode = "client"

Done == pc = "done"

\* The declaration a top-level item holds, with its export status:
\* <<decl, exported>>, or <<>> when the item is not a plain or exported
\* function or variable declaration.
TopDecl(item) ==
    IF item.k = "Stmt" /\ item.stmt.k \in {"FnDecl", "VarDecl"}
    THEN <<item.stmt, FALSE>>
    ELSE IF item.k = "ExportDecl" THEN <<item.decl, TRUE>>
    ELSE <<>>

\* The names a top-level item declares.
DeclaredNames(item) ==
    LET td == TopDecl(item)
    IN  IF td = <<>> THEN {}
        ELSE IF td[1].k = "FnDecl" THEN {td[1].ident}
        ELSE {td[1].decls[i].name.sym : i \in
                {j \in 1..Len(td[1].decls) : td[1].decls[j].name.k = "PatIdent"}}

\* A function or arrow literal with a block body.
IsFunctionLiteral(e) == e.k = "Fn" \/ (e.k = "Arrow" /\ e.body.k = "BlockStmt")

\* The functions a top-level item declares, in source order, as
\* [name, body, exported] records.
DeclaredFunctions(item) ==
    LET td == TopDecl(item)
    IN  IF td = <<>> THEN <<>>
        ELSE IF td[1].k = "FnDecl"
        THEN <<[name |-> td[1].ident, body |-> td[1].body, exported |-> td[2]]>>
        ELSE LET fs == SelectSeq(td[1].decls, LAMBDA d :
                          d.name.k = "PatIdent" /\ IsFunctionLiteral(d.init))
             IN  [i \in 1..Len(fs) |->
                    [name |-> fs[i].name.sym, body |-> fs[i].init.body,
                     exported |-> td[2]]]

HasDirective(body, text) ==
    \E i \in 1..Len(body.stmts) : IsBareString(body.stmts[i], text)

\* The workflow functions a top-level item declares.
WorkflowFunctions(item) ==
    SelectSeq(DeclaredFunctions(item), LAMBDA f : HasDirective(f.body, "use workflow"))

\* The step functions a top-level item declares.
StepFunctions(item) ==
    SelectSeq(DeclaredFunctions(item), LAMBDA f : HasDirective(f.body, "use step"))

\* The workflow functions of a module that are top-level declarations.
TopLevelWorkflows(items) ==
    Flatten([i \in 1..Len(items) |-> WorkflowFunctions(items[i])])

\* The item is a declaration of a registered step name, which rule 4.4 drops.
\* (Every declared name counts: the rule is keyed by name.)
DeclaresRegisteredStep(item) ==
    \E n \in DeclaredNames(item) : n \in Range(info.step_fn_names)

\* A body with its directive statements stripped.
StripDirectives(stmts) ==
    SelectSeq(stmts, LAMBDA st : ~IsBareString(st, "use workflow")
                                 /\ ~IsBareString(st, "use step"))

\* A durable-execution wrapper declaration: const <name> = withDurableExecution(
\* async (event, ctx) => { ... }), plain or under export.
IsWrapper(item) ==
    /\ TopDecl(item) # <<>>
    /\ TopDecl(item)[1].k = "VarDecl"
    /\ Len(TopDecl(item)[1].decls) = 1
    /\ TopDecl(item)[1].kind = "const"
    /\ TopDecl(item)[1].decls[1].name.k = "PatIdent"
    /\ LET init == TopDecl(item)[1].decls[1].init
       IN  /\ init.k = "Call"
           /\ init.callee = Ident("withDurableExecution")
           /\ Len(init.args) = 1
           /\ init.args[1].k = "Arrow"
           /\ init.args[1].is_async
           /\ init.args[1].params = <<PatIdent("event"), PatIdent("ctx")>>
           /\ init.args[1].body.k = "BlockStmt"

WrapperName(item) == TopDecl(item)[1].decls[1].name.sym

WrapperExported(item) == TopDecl(item)[2]

WrapperBody(item) == TopDecl(item)[1].decls[1].init.args[1].body.stmts

\* ctx.step("<name>", async () => { <stmts> })
CtxStep(name, stmts) ==
    [k |-> "Call",
     callee |-> [k |-> "Member", obj |-> [k |-> "Ident", sym |-> "ctx"],
                 prop |-> <<"step">>],
     args |-> <<[k |-> "Str", value |-> name],
                [k |-> "Arrow", params |-> <<>>, is_async |-> TRUE,
                 body |-> [k |-> "BlockStmt", stmts |-> stmts]]>>]

\* A call whose callee is the bare identifier name.
IsCallTo(e, name) == e.k = "Call" /\ e.callee = Ident(name)

(***************************************************************************)
(* Properties.                                                             *)
(***************************************************************************)
\* C1: in workflow mode, running the pass on its own output changes nothing:
\* whenever a second (or later) run is done, the module equals that run's input.
C1_WorkflowIdempotent ==
    (Done /\ WorkflowMode /\ run >= 2) => module = input

\* C2: in workflow mode, a module in which no function body carries
\* "use workflow" and no bare "use workflow" statement stands at top level comes
\* out item for item as it went in.
C2_WorkflowNoOp ==
    (Done /\ WorkflowMode /\ ~SomeFunctionIsWorkflow(input)
          /\ ~HasTopLevelDirective(input))
        => module = input

\* C2 witness: a finished first run on a module with two step functions and a
\* caller of one of them, but no workflow directive, which came out unchanged.
C2_Witness ==
    /\ Done /\ WorkflowMode /\ run = 1
    /\ input = <<StepFnS, StepVarT, PlainFn>>
    /\ info.step_fn_names = <<"s", "t">> /\ info.has_sleep
    /\ module = input

\* The workflow functions the pass rewrites: top-level declarations (plain or
\* under export) that carry "use workflow" and are not dropped as declarations
\* of a registered step name.
RewrittenWorkflows(items) ==
    Flatten([i \in 1..Len(items) |->
        IF DeclaresRegisteredStep(items[i]) THEN <<>>
        ELSE WorkflowFunctions(items[i])])

\* The names of the step functions declared by non-exported top-level
\* declarations, none of whose namesakes is exported.
PlainStepNames(items) ==
    {f.name : f \in UNION {Range(StepFunctions(items[i])) :
                            i \in {j \in 1..Len(items) : items[j].k = "Stmt"}}}
        \ UNION {DeclaredNames(items[i]) :
                    i \in {j \in 1..Len(items) : items[j].k = "ExportDecl"}}

\* Statement st calls name in a rewritten position: as the expression of an
\* expression statement, as a variable initializer or as a returned value,
\* directly or under await.
IsCallSite(st, name) ==
    \/ st.k = "Expr" /\ IsCallTo(st.expr, name)
    \/ st.k = "Expr" /\ st.expr.k = "Await" /\ IsCallTo(st.expr.arg, name)
    \/ st.k = "Return" /\ IsCallTo(st.arg, name)
    \/ st.k = "Return" /\ st.arg.k = "Await" /\ IsCallTo(st.arg.arg, name)
    \/ st.k = "VarDecl" /\ \E i \in 1..Len(st.decls) :
            \/ IsCallTo(st.decls[i].init, name)
            \/ st.decls[i].init.k = "Await" /\ IsCallTo(st.decls[i].init.arg, name)

\* Expression o stands where e stood, with a direct or awaited call to name
\* replaced by the expression by.
ExprReplaced(e, o, name, by) ==
    /\ IsCallTo(e, name) => o = by
    /\ (e.k = "Await" /\ IsCallTo(e.arg, name)) => o = AwaitExpr(by)

\* Statement o stands where st stood, with its call sites of name replaced.
SiteReplaced(st, o, name, by) ==
    CASE st.k = "Expr" -> o.k = "Expr" /\ ExprReplaced(st.expr, o.expr, name, by)
      [] st.k = "Return" -> o.k = "Return" /\ ExprReplaced(st.arg, o.arg, name, by)
      [] st.k = "VarDecl" ->
            /\ o.k = "VarDecl" /\ Len(o.decls) = Len(st.decls)
            /\ \A i \in 1..Len(st.decls) :
                  /\ o.decls[i].name = st.decls[i].name
                  /\ ExprReplaced(st.decls[i].init, o.decls[i].init, name, by)
      [] OTHER -> TRUE

\* The rewritten workflows of the input that call step in a rewritten position.
CallersOf(step) ==
    {f \in Range(RewrittenWorkflows(input)) :
        \E j \in 1..Len(StripDirectives(f.body.stmts)) :
            IsCallSite(StripDirectives(f.body.stmts)[j], step)}

\* The captured body of a step: the body of one of its declarations in the
\* input, as the fact sheet holds it, minus the "use step" directive.
InlinedBody(step) ==
    SelectSeq(info.step_fns[step].body.stmts, LAMBDA st : ~IsBareString(st, "use step"))

\* C6: for a non-exported top-level step function S called, in a rewritten
\* position, by a workflow function the pass rewrites, the output declares no S
\* at top level, and in the wrapper of every such caller each call site of S is
\* ctx.step("S", async () => { S's captured body without "use step" }).
C6_StepInlined ==
    (Done /\ WorkflowMode) =>
        \A step \in PlainStepNames(input) :
            CallersOf(step) # {} =>
                /\ \A i \in 1..Len(module) : step \notin DeclaredNames(module[i])
                /\ \E i \in 1..Len(input) : \E f \in Range(StepFunctions(input[i])) :
                        f.name = step /\ f.body = info.step_fns[step].body
                /\ \A f \in CallersOf(step) :
                      \E i \in 1..Len(module) :
                          /\ IsWrapper(module[i])
                          /\ WrapperName(module[i]) = f.name
                          /\ LET out == WrapperBody(module[i])
                                 src == StripDirectives(f.body.stmts)
                             IN  /\ Len(out) = Len(src)
                                 /\ \A j \in 1..Len(src) :
                                       SiteReplaced(src[j], out[j], step,
                                           CtxStep(step, InlinedBody(step)))

\* C6 witness: a finished first run on the step s followed by the workflow wf,
\* where the output has no declaration of s and wf's wrapper begins with
\* const r = await ctx.step("s", async () => { return x; }).
C6_Witness ==
    /\ Done /\ WorkflowMode /\ run = 1
    /\ input = <<StepFnS, StepVarT, WorkflowFn>>
    /\ "s" \in PlainStepNames(input) /\ CallersOf("s") # {}
    /\ Len(module) = 3
    /\ IsWrapper(module[2]) /\ WrapperName(module[2]) = "wf"
    /\ WrapperBody(module[2])[1] =
          ConstDecl("r", AwaitExpr(CtxStep("s", <<ReturnStmt(Ident("x"))>>)))

\* A default-exported function declaration whose body carries "use workflow".
IsDefaultExportedWorkflow(item) ==
    item.k = "ExportDefaultDecl" /\ IsFunctionWith(item.decl, "use workflow")

\* export default withDurableExecution(...)
IsDefaultExportedWrapper(item) ==
    /\ item.k = "ExportDefaultExpr"
    /\ item.expr.k = "Call"
    /\ item.expr.callee = Ident("withDurableExecution")

\* C8: an export default workflow function declaration is rewritten into a
\* default-exported durable-execution wrapper (read generously: the function
\* does not survive as written, and the output holds a wrapper exported as the
\* default or, at the least, an exported wrapper declaration of its name).
C8_DefaultExportWrapped ==
    (Done /\ WorkflowMode) =>
        \A i \in 1..Len(input) :
            IsDefaultExportedWorkflow(input[i]) =>
                /\ \A j \in 1..Len(module) : module[j] # input[i]
                /\ \E j \in 1..Len(module) :
                      \/ IsDefaultExportedWrapper(module[j])
                      \/ /\ IsWrapper(module[j]) /\ WrapperExported(module[j])
                         /\ Ident(WrapperName(module[j])) = input[i].decl.ident

\* What an output item is, for the comparison of positions: a wrapper of a
\* given name and export status, or the item itself.
Token(item) ==
    IF IsWrapper(item)
    THEN [wrapper |-> TRUE, name |-> WrapperName(item),
          exported |-> WrapperExported(item)]
    ELSE [wrapper |-> FALSE, item |-> item]

\* What an input item must become: one wrapper per workflow function it
\* declares, with the declaration's name and export status (must), or else
\* itself, if it survives at all.
ExpectedTokens(item) ==
    IF WorkflowFunctions(item) # <<>> /\ ~DeclaresRegisteredStep(item)
    THEN [i \in 1..Len(WorkflowFunctions(item)) |->
            [must |-> TRUE,
             tok |-> [wrapper |-> TRUE, name |-> WorkflowFunctions(item)[i].name,
                      exported |-> WorkflowFunctions(item)[i].exported]]]
    ELSE <<[must |-> FALSE, tok |-> Token(item)]>>

RECURSIVE KeepsOrder(_, _)
\* out is expected with some of its optional tokens left out, in order.
KeepsOrder(out, expected) ==
    IF expected = <<>> THEN out = <<>>
    ELSE IF out # <<>> /\ Head(out) = Head(expected).tok
    THEN KeepsOrder(Tail(out), Tail(expected))
    ELSE ~Head(expected).must /\ KeepsOrder(out, Tail(expected))

\* The output between the prepended imports and the appended meta export.
RewrittenItems ==
    SubSeq(module, (IF info.has_invoke THEN 3 ELSE 2),
           Len(module) - (IF info.workflow_fns # <<>> THEN 1 ELSE 0))

\* C9: every top-level workflow function or variable the pass rewrites becomes
\* const <name> = withDurableExecution(...) of the same name, exported exactly
\* when the declaration was, at the declaration's place among the surviving
\* items.
C9_ExportStatusPreserved ==
    (Done /\ WorkflowMode /\ TopLevelWorkflows(input) # <<>>) =>
        KeepsOrder([i \in 1..Len(RewrittenItems) |-> Token(RewrittenItems[i])],
                   Flatten([i \in 1..Len(input) |-> ExpectedTokens(input[i])]))

\* C9 witness: a finished first run on a non-exported workflow variable, a
\* plain function and an exported workflow function, with the wrappers in the
\* places of the declarations.
C9_Witness ==
    /\ Done /\ WorkflowMode /\ run = 1
    /\ input = <<WorkflowVar, PlainFn, ExportedWorkflowFn>>
    /\ Len(module) = 5
    /\ IsWrapper(module[2]) /\ WrapperName(module[2]) = "wv"
    /\ ~WrapperExported(module[2]) /\ module[2].k = "Stmt"
    /\ module[3] = PlainFn
    /\ IsWrapper(module[4]) /\ WrapperName(module[4]) = "we"
    /\ WrapperExported(module[4]) /\ module[4].k = "ExportDecl"

\* The steps array of a __workflowMeta export.
MetaSteps(item) == item.decl.decls[1].init.props[2].value.elems

\* export const __workflowMeta = { name: "<name>", steps: [ "...", ... ] }
IsMetaExport(item, name) ==
    /\ item.k = "ExportDecl" /\ item.decl.k = "VarDecl" /\ item.decl.kind = "const"
    /\ Len(item.decl.decls) = 1
    /\ item.decl.decls[1].name = PatIdent("__workflowMeta")
    /\ item.decl.decls[1].init.k = "Object"
    /\ Len(item.decl.decls[1].init.props) = 2
    /\ item.decl.decls[1].init.props[1] = KeyValueProp("name", StrLit(name))
    /\ item.decl.decls[1].init.props[2].key = "steps"
    /\ item.decl.decls[1].init.props[2].value.k = "Array"
    /\ \A i \in 1..Len(MetaSteps(item)) : MetaSteps(item)[i].k = "Str"

\* C10: when a workflow function was collected, the last output item is the
\* __workflowMeta export; its name is the first collected workflow function
\* (the first in source order when all of them are top-level declarations) and
\* its steps are, without duplicates, exactly the step names collected.
C10_WorkflowMeta ==
    (Done /\ WorkflowMode /\ info.workflow_fns # <<>>) =>
        LET meta == module[Len(module)]
        IN  /\ Len(module) >= 2
            /\ IsMetaExport(meta, info.workflow_fns[1].name)
            /\ Len(TopLevelWorkflows(input)) = Len(info.workflow_fns)
                  => IsMetaExport(meta, TopLevelWorkflows(input)[1].name)
            /\ {MetaSteps(meta)[i].value : i \in 1..Len(MetaSteps(meta))}
                  = Range(info.step_fn_names)
            /\ Len(MetaSteps(meta)) = Cardinality(Range(info.step_fn_names))

\* C10 witness: a finished first run on a step nobody calls followed by two
\* workflow functions; the meta export names the first and lists the step.
C10_Witness ==
    /\ Done /\ WorkflowMode /\ run = 1
    /\ input = <<StepVarT, ExportedWorkflowFn, WorkflowVar>>
    /\ Len(info.workflow_fns) = 2
    /\ IsMetaExport(module[Len(module)], "we")
    /\ MetaSteps(module[Len(module)]) = <<StrLit("t")>>

\* invoke(a, b, ...): a call of the identifier invoke with two arguments or more.
IsInvokeCall(e) == IsCallTo(e, "invoke") /\ Len(e.args) >= 2

\* e is such a call, directly or under await.
IsInvokeOrAwaited(e) ==
    IsInvokeCall(e) \/ (e.k = "Await" /\ IsInvokeCall(e.arg))

\* The body of f has statement-level invoke(a, b): an expression statement, a
\* variable initializer or a returned value, directly or under await.
HasInvokeSite(f) ==
    \E j \in 1..Len(f.body.stmts) :
        LET st == f.body.stmts[j]
        IN  \/ st.k = "Expr" /\ IsInvokeOrAwaited(st.expr)
            \/ st.k = "Return" /\ IsInvokeOrAwaited(st.arg)
            \/ st.k = "VarDecl" /\ \E i \in 1..Len(st.decls) :
                    IsInvokeOrAwaited(st.decls[i].init)

\* import { ..., withDurableExecution, ... } from "<config.packageName>"
IsDurableSdkImport(item) ==
    /\ item.k = "Import"
    /\ item.src = config.package_name
    /\ \E i \in 1..Len(item.specifiers) :
          item.specifiers[i] = ImportNamed("withDurableExecution", NoneV)

\* import { LambdaClient, InvokeCommand } from "@aws-sdk/client-lambda"
IsLambdaSdkImport(item) ==
    /\ item.k = "Import"
    /\ item.src = LambdaSdkSource
    /\ {item.specifiers[i].local : i \in 1..Len(item.specifiers)}
          = {"LambdaClient", "InvokeCommand"}

\* The import declarations of items from the remote-invocation SDK's source.
LambdaSourceImports(items) ==
    SelectSeq(items, LAMBDA it : it.k = "Import" /\ it.src = LambdaSdkSource)

\* C4: when a top-level workflow function has statement-level invoke(a, b)
\* (directly, under await, as a variable initializer or as a returned value),
\* the output starts with the import of withDurableExecution from
\* config.packageName, followed by the import of LambdaClient and
\* InvokeCommand from "@aws-sdk/client-lambda".
C4_InvokeImports ==
    (Done /\ WorkflowMode
          /\ \E f \in Range(TopLevelWorkflows(input)) : HasInvokeSite(f)) =>
        /\ Len(module) >= 2
        /\ IsDurableSdkImport(module[1])
        /\ IsLambdaSdkImport(module[2])
        /\ ~IsLambdaSdkImport(module[1])

\* C4 witness: a finished first run, under the package name "pkg", on a
\* workflow that returns invoke(f, p); the two imports lead the output.
C4_Witness ==
    /\ Done /\ WorkflowMode /\ run = 1
    /\ config = PackageConfig
    /\ input = <<PlainInvokeFn, WfInvokeReturn>>
    /\ HasInvokeSite(TopLevelWorkflows(input)[1])
    /\ info.has_invoke
    /\ module[1].src = <<"p", "k", "g">>
    /\ module[2].src = LambdaSdkSource
    /\ Len(module) = 5

\* C5: when the module has a top-level workflow function and no call of the
\* identifier invoke anywhere, the output starts with the durable-execution
\* SDK import and holds no import from "@aws-sdk/client-lambda" that the
\* input did not hold (none at all when the input holds none), whatever
\* calls of sleep there are.
C5_NoLambdaImportWithoutInvoke ==
    (Done /\ WorkflowMode /\ TopLevelWorkflows(input) # <<>>
          /\ \A n \in ModuleNodes(input) : ~(n.k = "Call" /\ n.callee = Ident("invoke"))) =>
        /\ Len(module) >= 1
        /\ IsDurableSdkImport(module[1])
        /\ LambdaSourceImports(module) = LambdaSourceImports(input)
        /\ \A i \in 1..Len(module) :
              IsLambdaSdkImport(module[i]) => \E j \in 1..Len(input) : input[j] = module[i]

\* C5 witness: a finished first run on a workflow that awaits sleep(d):
\* has_sleep is set, has_invoke is not, and the only import of the output is
\* the durable-execution SDK's.
C5_Witness ==
    /\ Done /\ WorkflowMode /\ run = 1
    /\ input = <<WfSleep, WfWaitForCallback>>
    /\ info.has_sleep /\ ~info.has_invoke
    /\ IsDurableSdkImport(module[1])
    /\ \A i \in 2..Len(module) : module[i].k # "Import"
    /\ Len(module) = 4

\* The source path starts with "./" or with "../".
IsRelativePath(src) ==
    \/ Len(src) >= 2 /\ src[1] = "." /\ src[2] = "/"
    \/ Len(src) >= 3 /\ src[1] = "." /\ src[2] = "." /\ src[3] = "/"

\* The import declarations of items from sources that are not relative paths.
NonRelativeImports(items) ==
    SelectSeq(items, LAMBDA it : it.k = "Import" /\ ~IsRelativePath(it.src))

\* The relative source paths from which items import one specifier or more.
ImportedRelativeSources(items) ==
    {items[i].src : i \in {j \in 1..Len(items) :
        /\ items[j].k = "Import"
        /\ IsRelativePath(items[j].src)
        /\ items[j].specifiers # <<>>}}

\* C3: in client mode, a module with no import declaration whose source
\* starts with "./" or "../" comes out exactly as it went in.
C3_ClientNoOp ==
    (Done /\ ClientMode
          /\ \A i \in 1..Len(input) :
                input[i].k = "Import" => ~IsRelativePath(input[i].src)) =>
        module = input

\* C3 witness: a finished first client run on imports from "pkg" and from
\* ".c" and a function with a "use workflow" body, none of them touched.
C3_Witness ==
    /\ Done /\ ClientMode /\ run = 1
    /\ input = <<ImportUtil, ImportDotC, ExportedWorkflowFn>>
    /\ info.workflow_imports = <<>>
    /\ info.workflow_fns # <<>>
    /\ module = input

\* C7: in client mode, the output has no import declaration from a relative
\* source path from which the input imported one specifier or more, and the
\* import declarations from non-relative sources are those of the input,
\* unchanged and in the same order.
C7_ClientImports ==
    (Done /\ ClientMode) =>
        /\ \A j \in 1..Len(module) :
              module[j].k = "Import" =>
                  module[j].src \notin ImportedRelativeSources(input)
        /\ NonRelativeImports(module) = NonRelativeImports(input)

\* C7 witness: a finished first client run on import { util } from "pkg",
\* import { wa } from "./a" and import { cfg as wb } from ".c": the import
\* from "./a" is gone, the two others stay in order and a declaration of wa
\* follows them.
C7_Witness ==
    /\ Done /\ ClientMode /\ run = 1
    /\ input = <<ImportUtil, ImportWa, ImportDotC>>
    /\ ImportedRelativeSources(input) = {<<".", "/", "a">>}
    /\ Len(module) = 3
    /\ module[1] = ImportUtil /\ module[2] = ImportDotC
    /\ module[3].k = "Stmt" /\ "wa" \in DeclaredNames(module[3])

\* The expressions a body statement holds where the rewrite looks: that of an
\* expression statement, the initializers of a variable declaration, the
\* argument of a return.
TopExprs(st) ==
    CASE st.k = "Expr" -> <<st.expr>>
      [] st.k = "Return" -> <<st.arg>>
      [] st.k = "VarDecl" -> [i \in 1..Len(st.decls) |-> st.decls[i].init]
      [] OTHER -> <<>>

\* The output statement has the kind, and as many expressions, as the source's.
SameShape(st, o) ==
    /\ o.k = st.k
    /\ Len(TopExprs(o)) = Len(TopExprs(st))
    /\ \A p \in 1..Len(TopExprs(st)) :
          TopExprs(st)[p].k = "Await" => TopExprs(o)[p].k = "Await"

\* The operand of an await, or the expression itself.
UnAwait(e) == IF e.k = "Await" THEN e.arg ELSE e

\* The <<source body, wrapper body>> pairs of the workflows the pass rewrote.
RewrittenBodies ==
    {<<StripDirectives(x[1].body.stmts), WrapperBody(module[x[2]])>> :
        x \in {y \in Range(RewrittenWorkflows(input)) \X (1..Len(module)) :
                  IsWrapper(module[y[2]]) /\ WrapperName(module[y[2]]) = y[1].name}}

\* Every rewritten workflow has a wrapper, statement for statement.
BodiesAligned ==
    /\ \A f \in Range(RewrittenWorkflows(input)) :
          \E i \in 1..Len(module) :
              IsWrapper(module[i]) /\ WrapperName(module[i]) = f.name
    /\ \A b \in RewrittenBodies :
          /\ Len(b[2]) = Len(b[1])
          /\ \A j \in 1..Len(b[1]) : SameShape(b[1][j], b[2][j])

\* The <<source expression, output expression>> pairs at the rewritten
\* positions of the rewritten workflows, awaits removed.
ExprPairs ==
    UNION {UNION {{<<UnAwait(TopExprs(b[1][j])[p]), UnAwait(TopExprs(b[2][j])[p])>> :
                        p \in 1..Len(TopExprs(b[1][j]))} :
                  j \in 1..Len(b[1])} :
           b \in RewrittenBodies}

\* invoke with fewer than two arguments, or sleep with none, where neither
\* name is a registered step.
IsWrongArityCall(e) ==
    /\ e.k = "Call" /\ e.callee.k = "Ident"
    /\ e.callee.sym \notin Range(info.step_fn_names)
    /\ \/ e.callee.sym = "invoke" /\ Len(e.args) < 2
       \/ e.callee.sym = "sleep" /\ Len(e.args) = 0

\* An argument comes out as the argument of any other call does: a call of a
\* registered step as its ctx.step form, an identifier or a literal as it is.
ArgRewritten(a, o) ==
    /\ \A name \in Range(info.step_fn_names) :
          IsCallTo(a, name) => o = CtxStep(name, InlinedBody(name))
    /\ a.k \in {"Ident", "Str"} => o = a

\* The call o is the call e with each argument rewritten in place.
PassedThrough(e, o) ==
    /\ o.k = "Call"
    /\ o.callee = e.callee
    /\ Len(o.args) = Len(e.args)
    /\ \A i \in 1..Len(e.args) : ArgRewritten(e.args[i], o.args[i])

\* C11: in a rewritten workflow body, invoke with fewer than two arguments
\* and sleep with no argument are not replaced: the call keeps its callee and
\* its number of arguments, and each argument is rewritten as the arguments
\* of any other call are; the pass completes on every input.
C11_WrongArityPassThrough ==
    (Done /\ WorkflowMode) =>
        /\ BodiesAligned
        /\ \A x \in ExprPairs :
              /\ IsWrongArityCall(x[1]) => PassedThrough(x[1], x[2])
              /\ x[1].k = "Call" =>
                    \A i \in 1..Len(x[1].args) :
                        (IsWrongArityCall(x[1].args[i]) /\ x[2].k = "Call"
                            /\ x[2].callee = x[1].callee
                            /\ Len(x[2].args) = Len(x[1].args))
                          => PassedThrough(x[1].args[i], x[2].args[i])

\* C11 witness: a finished first run on the step s and the workflow b2, whose
\* wrapper, after the two imports, holds invoke(ctx.step("s", ...)),
\* await sleep() and return invoke().
C11_Witness ==
    /\ Done /\ WorkflowMode /\ run = 1
    /\ input = <<StepFnS, WfWrongArity>>
    /\ info.has_invoke /\ info.has_sleep
    /\ Len(module) = 4
    /\ IsWrapper(module[3]) /\ WrapperName(module[3]) = "b2"
    /\ WrapperBody(module[3]) =
          <<ExprStmt(Call1("invoke", CtxStep("s", <<ReturnStmt(Ident("x"))>>))),
            ExprStmt(AwaitExpr(Call0("sleep"))),
            ReturnStmt(Call0("invoke"))>>

\* The values a configuration object gives for a key, in order.
Supplied(md, key) ==
    LET hits == SelectSeq(md.json.members, LAMBDA m : m[1] = key)
    IN  [i \in 1..Len(hits) |-> hits[i][2]]

\* A value the field can take: a string, and for mode one of the two names.
IsFieldValue(key, v) ==
    /\ v.k = "JStr"
    /\ key = "mode" =>
          v.value \in {<<"w", "o", "r", "k", "f", "l", "o", "w">>,
                       <<"c", "l", "i", "e", "n", "t">>}

\* The configuration is there, is a JSON object, and gives each of the three
\* fields at most once and with a value the field can take.
IsValidConfig(md) ==
    /\ md # NoneV
    /\ md.json.k = "JObject"
    /\ \A key \in {"mode", "packageName", "envPrefix"} :
          /\ Len(Supplied(md, key)) <= 1
          /\ \A i \in 1..Len(Supplied(md, key)) :
                IsFieldValue(key, Supplied(md, key)[i])

\* The string the configuration gives for a key, or else the default.
SuppliedOr(md, key, default) ==
    IF Supplied(md, key) = <<>> THEN default ELSE Supplied(md, key)[1].value

\* C12: once resolved, the configuration is always a usable PluginConfig.
\* With no configuration, a text that is not JSON (or not an object), or a
\* field value that does not parse, it is the defaults: mode workflow,
\* packageName "@bento/aws-durable", envPrefix "WORKFLOW_".  With a valid
\* object, each field supplied is honoured and each field omitted has its
\* default.
C12_ConfigResolution ==
    pc # "resolve" =>
        /\ config.mode \in {"workflow", "client"}
        /\ ~IsValidConfig(metadata) =>
              /\ config.mode = "workflow"
              /\ config.package_name =
                    <<"@", "b", "e", "n", "t", "o", "/", "a", "w", "s", "-",
                      "d", "u", "r", "a", "b", "l", "e">>
              /\ config.env_prefix = <<"W", "O", "R", "K", "F", "L", "O", "W", "_">>
        /\ IsValidConfig(metadata) =>
              /\ config.mode = "client"
                    <=> SuppliedOr(metadata, "mode", <<>>) = <<"c", "l", "i", "e", "n", "t">>
              /\ config.package_name =
                    SuppliedOr(metadata, "packageName",
                        <<"@", "b", "e", "n", "t", "o", "/", "a", "w", "s", "-",
                          "d", "u", "r", "a", "b", "l", "e">>)
              /\ config.env_prefix =
                    SuppliedOr(metadata, "envPrefix",
                        <<"W", "O", "R", "K", "F", "L", "O", "W", "_">>)

\* C12 witness: a finished first run under { "envPrefix": "pkg", "mode":
\* "client" }: client mode with that prefix and the default package name,
\* and the relative import replaced.
C12_Witness ==
    /\ Done /\ run = 1
    /\ metadata = ConfigText(JsonObject(
            <<<<"envPrefix", JsonStr(<<"p", "k", "g">>)>>,
              <<"mode", JsonStr(<<"c", "l", "i", "e", "n", "t">>)>>>>))
    /\ IsValidConfig(metadata)
    /\ config = PluginConfig("client", default_package_name, <<"p", "k", "g">>)
    /\ input = <<ImportWa>>
    /\ module # input

\* The <<call, replacement>> pairs of the rewritten step calls: the calls of
\* a registered step at the rewritten positions (awaits removed), and on the
\* right of an assignment there.
StepCallPairs ==
    {x \in ExprPairs :
        x[1].k = "Call" /\ x[1].callee.k = "Ident"
            /\ x[1].callee.sym \in Range(info.step_fn_names)}
    \cup
    {<<x[1].right, x[2].right>> :
        x \in {y \in ExprPairs :
                /\ y[1].k = "Assign" /\ y[2].k = "Assign"
                /\ y[1].right.k = "Call" /\ y[1].right.callee.k = "Ident"
                /\ y[1].right.callee.sym \in Range(info.step_fn_names)}}

\* C13: the replacement of a rewritten step call is ctx.step("<name>",
\* async () => { <captured body> }) whatever the call's arguments: the arrow
\* takes no parameter, two calls of the same step have the same replacement,
\* and an argument occurs in the replacement only where the step's own body
\* has it.
C13_StepArgumentsDiscarded ==
    (Done /\ WorkflowMode) =>
        /\ BodiesAligned
        /\ \A x \in StepCallPairs :
              /\ x[2] = CtxStep(x[1].callee.sym, InlinedBody(x[1].callee.sym))
              /\ x[2].args[2].params = <<>>
              /\ Len(x[2].args) = 2
              /\ \A i \in 1..Len(x[1].args) :
                    x[1].args[i] \in NodesOf(x[2]) =>
                        x[1].args[i] \in NodesOf(info.step_fns[x[1].callee.sym].body)
        /\ \A x, y \in StepCallPairs :
              x[1].callee = y[1].callee => x[2] = y[2]

\* C13 witness: a finished first run on the steps s and t and the workflow
\* b1, where s(q, t()) and await s() both come out as the same
\* ctx.step("s", async () => { return x; }).
C13_Witness ==
    /\ Done /\ WorkflowMode /\ run = 1
    /\ input = <<StepFnS, StepVarT, WfStepArgs>>
    /\ Len(module) = 3
    /\ IsWrapper(module[2]) /\ WrapperName(module[2]) = "b1"
    /\ <<Call2("s", Ident("q"), Call0("t")),
         CtxStep("s", <<ReturnStmt(Ident("x"))>>)>> \in StepCallPairs
    /\ <<Call0("s"), CtxStep("s", <<ReturnStmt(Ident("x"))>>)>> \in StepCallPairs
    /\ WrapperBody(module[2])[2] =
          ConstDecl("r", AwaitExpr(CtxStep("s", <<ReturnStmt(Ident("x"))>>)))

\* The fact sheet of the current run has been produced.
Collected == pc \in {"transform", "done"}

\* The names of the collected workflow functions.
WorkflowNames == {info.workflow_fns[i].name : i \in 1..Len(info.workflow_fns)}

\* C14: in the fact sheet the collector produced, no name is both in the
\* workflow-function list and in the step-function map.
C14_WorkflowStepDisjoint ==
    Collected => WorkflowNames \cap DOMAIN info.step_fns = {}

\* C15: within a run the module is rewritten only by pass 2, which starts
\* from the fact sheet that pass 1 produced from the whole module; pass 1
\* rewrites nothing, and pass 2 leaves every field of the fact sheet as it
\* was given it.
C15_PassOrder ==
    [][/\ module' # module => (pc = "transform" /\ info = Collect(module))
       /\ pc = "collect" => (module' = module /\ info' = Collect(module))
       /\ pc = "transform" => (info' = info /\ info' = Collect(input))]_vars

\* C15 witness: a finished first run that rewrote a step and a workflow,
\* with the fact sheet still the one collected from the input.
C15_Witness ==
    /\ Done /\ WorkflowMode /\ run = 1
    /\ input = <<StepFnS, WorkflowFn>>
    /\ module # input
    /\ info = Collect(input)
    /\ DOMAIN info.step_fns = {"s"}
    /\ Len(info.workflow_fns) = 1

\* C16: in a workflow-mode run that does not short-circuit, an exported
\* declaration of a registered step name is absent from the output, and an
\* exported declaration of a registered workflow name (and of no step name)
\* has an exported wrapper of that name in the output.
C16_ExportedDeclarationsFollowRules ==
    (Done /\ WorkflowMode
          /\ (info.workflow_fns # <<>> \/ info.has_module_workflow_directive)) =>
        \A i \in 1..Len(input) :
            input[i].k = "ExportDecl" =>
                /\ DeclaresRegisteredStep(input[i]) =>
                      \A j \in 1..Len(module) : module[j] # input[i]
                /\ ~DeclaresRegisteredStep(input[i]) =>
                      \A f \in Range(WorkflowFunctions(input[i])) :
                          \E j \in 1..Len(module) :
                              /\ IsWrapper(module[j])
                              /\ WrapperName(module[j]) = f.name
                              /\ WrapperExported(module[j])

\* A call the body rewrite rules replace: of a registered step, of
\* waitForCallback, of sleep with an argument, of invoke with two.
IsRewritableCall(e) ==
    /\ e.k = "Call" /\ e.callee.k = "Ident"
    /\ \/ e.callee.sym \in Range(info.step_fn_names)
       \/ e.callee.sym = "waitForCallback"
       \/ e.callee.sym = "sleep" /\ Len(e.args) >= 1
       \/ e.callee.sym = "invoke" /\ Len(e.args) >= 2

\* No statement of stmts still holds such a call at a rewritten position.
BodyIsRewritten(stmts) ==
    \A j \in 1..Len(stmts) :
        \A p \in 1..Len(TopExprs(stmts[j])) :
            ~IsRewritableCall(UnAwait(TopExprs(stmts[j])[p]))

\* C17: the statements spliced into the arrow of a ctx.step replacement have
\* been rewritten by the body rules: none of them still holds, at a rewritten
\* position, a call of sleep, invoke, waitForCallback or a registered step.
C17_InlinedBodyRewritten ==
    (Done /\ WorkflowMode) =>
        \A x \in StepCallPairs :
            (x[2].k = "Call" /\ Len(x[2].args) = 2 /\ x[2].args[2].k = "Arrow")
                => BodyIsRewritten(x[2].args[2].body.stmts)

\* The statement kinds whose expressions the body rewrite looks at.
RewrittenKinds == {"Expr", "VarDecl", "Return"}

\* C18: in a rewritten workflow body, a direct statement that is not an
\* expression statement, a variable declaration or a return (an if, a block,
\* a nested function declaration) comes out as an exact copy, step calls
\* and reserved calls inside it included, while the rewritable calls at the
\* three kinds' positions are all replaced.
C18_StatementRecursionLimited ==
    (Done /\ WorkflowMode) =>
        /\ BodiesAligned
        /\ \A b \in RewrittenBodies :
              \A j \in 1..Len(b[1]) :
                  /\ b[1][j].k \notin RewrittenKinds => b[2][j] = b[1][j]
                  /\ b[1][j].k \in RewrittenKinds =>
                        \A p \in 1..Len(TopExprs(b[1][j])) :
                            /\ ~IsRewritableCall(UnAwait(TopExprs(b[2][j])[p]))
                            /\ IsRewritableCall(UnAwait(TopExprs(b[1][j])[p]))
                                  => TopExprs(b[2][j])[p] # TopExprs(b[1][j])[p]

\* C18 witness: a finished first run on the steps s and t and the workflow
\* b3: if (c) s(q), the block { t(); } and function g with its sleep(d) are
\* copied, and return t() is rewritten.
C18_Witness ==
    /\ Done /\ WorkflowMode /\ run = 1
    /\ input = <<StepFnS, StepVarT, WfNestedStmts>>
    /\ Len(module) = 3
    /\ IsWrapper(module[2]) /\ WrapperName(module[2]) = "b3"
    /\ WrapperBody(module[2]) =
          <<IfStmt(Ident("c"), ExprStmt(StepCallQ)),
            BlockStmt(<<ExprStmt(Call0("t"))>>),
            FnDecl("g", <<>>, BlockStmt(<<ExprStmt(Call1("sleep", Ident("d")))>>), FALSE),
            ReturnStmt(CtxStep("t",
                <<ExprStmt(AwaitExpr(Call1("sleep", Ident("d"))))>>))>>

\* A call of the bare identifier name occurs somewhere in the module.
CallOccurs(items, name) ==
    \E n \in ModuleNodes(items) : n.k = "Call" /\ n.callee = Ident(name)

\* C19: after collection, has_invoke, has_sleep and has_wait_for_callback
\* are true exactly when a call of the bare identifier invoke, sleep,
\* waitForCallback occurs anywhere in the module, callee positions such as
\* invoke(a, b).then(f) included.
C19_FlagsComplete ==
    Collected =>
        /\ info.has_invoke <=> CallOccurs(input, "invoke")
        /\ info.has_sleep <=> CallOccurs(input, "sleep")
        /\ info.has_wait_for_callback <=> CallOccurs(input, "waitForCallback")

\* The step functions of a module that are top-level declarations.
TopLevelSteps(items) ==
    Flatten([i \in 1..Len(items) |-> StepFunctions(items[i])])

\* C20: the collector registers a workflow function or a step function only
\* for a top-level declaration (plain or under export): the collected
\* workflow names are those of the top-level workflow declarations, in
\* order, and the collected step names those of the top-level step
\* declarations; nothing nested inside another construct is registered.
C20_OnlyTopLevelRegistered ==
    Collected =>
        /\ [i \in 1..Len(info.workflow_fns) |-> info.workflow_fns[i].name]
              = [i \in 1..Len(TopLevelWorkflows(input)) |->
                    TopLevelWorkflows(input)[i].name]
        /\ info.step_fn_names
              = [i \in 1..Len(TopLevelSteps(input)) |-> TopLevelSteps(input)[i].name]
        /\ DOMAIN info.step_fns = Range(info.step_fn_names)

\* An item that exports a constant named __workflowMeta.
ExportsWorkflowMeta(item) ==
    /\ item.k = "ExportDecl" /\ item.decl.k = "VarDecl"
    /\ \E i \in 1..Len(item.decl.decls) :
          item.decl.decls[i].name = PatIdent("__workflowMeta")

\* C21: in a finished workflow-mode run whose early return did not fire (a
\* workflow function was collected or the module-level directive is present),
\* exactly one output item exports __workflowMeta and it is the last item;
\* this includes a module with the module-level directive and no workflow
\* function.
C21_MetaExportWheneverRewritten ==
    (Done /\ WorkflowMode
          /\ (info.workflow_fns # <<>> \/ info.has_module_workflow_directive)) =>
        /\ module # <<>>
        /\ ExportsWorkflowMeta(module[Len(module)])
        /\ Cardinality({i \in 1..Len(module) : ExportsWorkflowMeta(module[i])}) = 1

\* An import declaration the client rewrite removes: its source is a relative
\* path from which the input imports one specifier or more.
IsRemovedImport(item) ==
    item.k = "Import" /\ item.src \in ImportedRelativeSources(input)

\* The items of the input that survive the client rewrite, in order.
SurvivingItems == SelectSeq(input, LAMBDA it : ~IsRemovedImport(it))

\* The local names of the specifiers of the removed imports, in source order.
RemovedLocals ==
    Flatten([i \in 1..Len(input) |->
        IF IsRemovedImport(input[i])
        THEN [j \in 1..Len(input[i].specifiers) |-> input[i].specifiers[j].local]
        ELSE <<>>])

\* The number of import declarations before the first item that is not one.
LeadingImports(items) ==
    Cardinality({i \in 1..Len(items) : \A j \in 1..i : items[j].k = "Import"})

\* const <local> = { ... };
IsDescriptorOf(item, local) ==
    /\ item.k = "Stmt" /\ item.stmt.k = "VarDecl" /\ item.stmt.kind = "const"
    /\ Len(item.stmt.decls) = 1
    /\ item.stmt.decls[1].name = PatIdent(local)
    /\ IsSome(item.stmt.decls[1].init)
    /\ item.stmt.decls[1].init.k = "Object"

IsFrameItem(item) ==
    /\ ~(item.k = "Stmt" /\ IsBareString(item.stmt, "use workflow"))
    /\ \A n \in DeclaredNames(item) :
          n \notin Range(info.step_fn_names) \cup WorkflowNames

\* What may stand in the output for an item that is not a frame item: the
\* item itself or a wrapper of a name it declares.
MayReplace(o, item) ==
    o = item \/ (IsWrapper(o) /\ WrapperName(o) \in DeclaredNames(item))

RECURSIVE FrameKept(_, _)
\* out is items in order, with every frame item verbatim and once, and every
\* other item dropped or replaced at its place.
FrameKept(out, items) ==
    IF items = <<>> THEN out = <<>>
    ELSE IF IsFrameItem(Head(items))
    THEN out # <<>> /\ Head(out) = Head(items) /\ FrameKept(Tail(out), Tail(items))
    ELSE \E k \in 0..Len(out) :
            /\ \A j \in 1..k : MayReplace(out[j], Head(items))
            /\ FrameKept(SubSeq(out, k + 1, Len(out)), Tail(items))

\* C23: in a finished workflow-mode run whose early return did not fire,
\* every top-level item that is not a bare "use workflow" statement and
\* declares neither a registered step name nor a registered workflow name is
\* in the output verbatim and once, and the kept and the replaced items stand
\* in the order of the input between the prepended imports and the meta
\* export.
C23_OtherItemsVerbatim ==
    (Done /\ WorkflowMode
          /\ (info.workflow_fns # <<>> \/ info.has_module_workflow_directive)) =>
        FrameKept(RewrittenItems, input)

\* C23 witness: a finished first run on a step, a plain function, an exported
\* workflow function: the plain function stands unchanged before the wrapper.
C23_Witness ==
    /\ Done /\ WorkflowMode /\ run = 1
    /\ input = <<StepFnS, PlainFn, ExportedWorkflowFn>>
    /\ IsFrameItem(PlainFn) /\ ~IsFrameItem(StepFnS)
    /\ Len(module) = 4
    /\ module[2] = PlainFn
    /\ IsWrapper(module[3]) /\ WrapperName(module[3]) = "we"

RECURSIVE RewritePairs(_, _)
\* The <<source, output>> pairs the expression rewrite works through below
\* the pair <<e, o>>: the operands of two awaits, the right-hand sides of two
\* assignments, the arguments of two calls with one callee and one arity.
RewritePairs(e, o) ==
    {<<e, o>>} \cup
    (CASE e.k = "Await" /\ o.k = "Await" -> RewritePairs(e.arg, o.arg)
       [] e.k = "Assign" /\ o.k = "Assign" -> RewritePairs(e.right, o.right)
       [] e.k = "Call" /\ o.k = "Call" /\ o.callee = e.callee
             /\ Len(o.args) = Len(e.args) ->
             UNION {RewritePairs(e.args[i], o.args[i]) : i \in 1..Len(e.args)}
       [] OTHER -> {})

\* Every such pair of the rewritten workflows.
AllRewritePairs ==
    UNION {UNION {UNION {RewritePairs(TopExprs(b[1][j])[p], TopExprs(b[2][j])[p]) :
                            p \in 1..Len(TopExprs(b[1][j]))} :
                      j \in 1..Len(b[1])} :
           b \in RewrittenBodies}

\* C24: where the body rewrite reaches an expression: a call that is neither
\* of a registered step nor a handled reserved call keeps its callee as
\* written, calls inside the callee included, and has each argument
\* rewritten in turn; an await keeps its form and has its operand rewritten;
\* an assignment keeps its target as written and has its right-hand side
\* rewritten; an expression of any other kind is an exact copy; a rewritable
\* call that is reached is replaced.
C24_ExpressionRecursionScope ==
    (Done /\ WorkflowMode) =>
        /\ BodiesAligned
        /\ \A x \in AllRewritePairs :
              /\ (x[1].k = "Call" /\ ~IsRewritableCall(x[1])) =>
                    /\ x[2].k = "Call"
                    /\ x[2].callee = x[1].callee
                    /\ Len(x[2].args) = Len(x[1].args)
              /\ x[1].k = "Await" => x[2].k = "Await"
              /\ x[1].k = "Assign" => (x[2].k = "Assign" /\ x[2].left = x[1].left)
              /\ x[1].k \notin {"Call", "Await", "Assign"} => x[2] = x[1]
              /\ IsRewritableCall(x[1]) => x[2] # x[1]

\* C24 witness: a finished first run on the step s and the workflow b5: the
\* wrapper holds s(q).then(ctx.step(...)), s(q).v = ctx.wait(...), and a call
\* of f whose six arguments, each holding s(q), are as written.
C24_Witness ==
    /\ Done /\ WorkflowMode /\ run = 1
    /\ input = <<StepFnS, WfExprKinds>>
    /\ Len(module) = 3 /\ IsWrapper(module[2])
    /\ LET b == WrapperBody(module[2])
       IN  /\ Len(b) = 3
           /\ b[1].expr.callee = MemberExpr(StepCallQ, IdentName("then"))
           /\ b[1].expr.args[1] = CtxStep("s", InlinedBody("s"))
           /\ b[2].expr.left = MemberExpr(StepCallQ, IdentName("v"))
           /\ b[2].expr.right # Call1("sleep", Ident("d"))
           /\ b[3] = WfExprKinds.stmt.body.stmts[4]

\* The generated invoke step: ctx.step("invoke", async () => { ... }) with a
\* body that constructs a LambdaClient and an InvokeCommand.
IsInvokeStep(n) ==
    /\ n.k = "Call"
    /\ n.callee = MemberExpr(Ident("ctx"), IdentName("step"))
    /\ Len(n.args) = 2 /\ n.args[1] = StrLit("invoke")
    /\ \E m \in NodesOf(n.args[2]) : m.k = "New" /\ m.callee = Ident("LambdaClient")
    /\ \E m \in NodesOf(n.args[2]) : m.k = "New" /\ m.callee = Ident("InvokeCommand")

\* The invoke steps this run generated: those of the output that the input
\* did not hold.
GeneratedInvokeSteps ==
    {n \in ModuleNodes(module) \ ModuleNodes(input) : IsInvokeStep(n)}

\* C25: in a finished workflow-mode run that rewrote a call of invoke into
\* the generated invoke step, the collector has set has_invoke and the output
\* holds, as its second item, the import of LambdaClient and InvokeCommand
\* from "@aws-sdk/client-lambda".
C25_InvokeRewriteHasImport ==
    (Done /\ WorkflowMode /\ GeneratedInvokeSteps # {}) =>
        /\ info.has_invoke
        /\ Len(module) >= 2
        /\ IsLambdaSdkImport(module[2])

\* C25 witness: a finished first run on the workflow b6, whose invoke calls
\* under an assignment and as the argument of g(q).then(...) are rewritten,
\* whose invoke call in callee position is not, and whose output imports the
\* remote-invocation SDK.
C25_Witness ==
    /\ Done /\ WorkflowMode /\ run = 1
    /\ input = <<WfInvokeDeep>>
    /\ GeneratedInvokeSteps # {}
    /\ IsLambdaSdkImport(module[2])
    /\ IsWrapper(module[3])
    /\ LET b == WrapperBody(module[3])
       IN  /\ IsInvokeStep(b[1].expr.right.arg)
           /\ IsInvokeStep(b[2].expr.args[1])
           /\ b[3] = WfInvokeDeep.stmt.body.stmts[4]

\* The step functions whose declaration the run dropped: declared by a
\* top-level item of the input, by no item of the output.
DroppedSteps ==
    {f.name : f \in Range(TopLevelSteps(input))}
        \ UNION {DeclaredNames(module[j]) : j \in 1..Len(module)}

\* C26: in a finished workflow-mode run, no call of a step function whose
\* declaration was dropped is left anywhere in the output: not in a workflow
\* body, not in another function, not at top level, not in an inlined step
\* body.
C26_NoDanglingStepCalls ==
    (Done /\ WorkflowMode) =>
        \A name \in DroppedSteps : ~CallOccurs(module, name)

\* The declarators of the top-level variable declarations of items, plain or
\* exported.
TopDeclarators(items) ==
    UNION {Range(TopDecl(items[i])[1].decls) :
              i \in {j \in 1..Len(items) :
                        TopDecl(items[j]) # <<>> /\ TopDecl(items[j])[1].k = "VarDecl"}}

\* C27: in a finished workflow-mode run whose early return did not fire,
\* every declarator of a top-level variable declaration whose name is neither
\* a registered step nor a registered workflow is still a declarator of a
\* top-level variable declaration of the output.
C27_DeclaratorsPreserved ==
    (Done /\ WorkflowMode
          /\ (info.workflow_fns # <<>> \/ info.has_module_workflow_directive)) =>
        \A d \in TopDeclarators(input) :
            (d.name.k = "PatIdent"
                /\ d.name.sym \notin Range(info.step_fn_names) \cup WorkflowNames)
              => d \in TopDeclarators(module)

\* C28: the two passes are deterministic: the output a transform pass
\* produces is the only one it can produce from the same module, facts and
\* configuration, whatever the order in which the hash map of step functions
\* yields its keys (the steps array of __workflowMeta included).
C28_Deterministic ==
    [][(pc = "transform" /\ pc' = "done") =>
          \A step_keys \in KeyOrders(DOMAIN info.step_fns) :
              module' = visit_mut_module(config, info, module, step_keys)]_vars

\* C29: in client mode, a run on the output of a run leaves it unchanged,
\* and no output keeps an import specifier from a relative source path (an
\* import of a relative path that is kept has no specifier).
C29_ClientIdempotent ==
    (Done /\ ClientMode) =>
        /\ run >= 2 => module = input
        /\ \A j \in 1..Len(module) :
              (module[j].k = "Import" /\ IsRelativePath(module[j].src))
                  => module[j].specifiers = <<>>

\* C29 witness: a finished second client run on the output of a first run
\* that replaced an import by a declaration of wa and kept import "../e":
\* the second run collected nothing and changed nothing.
C29_Witness ==
    /\ Done /\ ClientMode /\ run = 2
    /\ Len(input) = 3
    /\ input[1] = ImportSideEffectOnly
    /\ IsDescriptorOf(input[2], "wa")
    /\ input[3] = TopLevelCall
    /\ info.workflow_imports = <<>>
    /\ module = input

====
